---- MODULE Spec2Model ----
(***************************************************************************)
(* Ahead-of-time native compilation core of the wagon VM: the sequence     *)
(* scanner (exec/internal/compile/scanner.go), the AMD64 backend's         *)
(* supported set and Build (exec/internal/compile), and the driver         *)
(* VM.tryNativeCompile (exec/native_compile.go).                           *)
(*                                                                         *)
(* Go slices are 0-based: byte offset b of a bytecode buffer is element    *)
(* b+1 of the sequence that models it, and instruction index j of          *)
(* meta.Instructions is element j+1.                                       *)
(***************************************************************************)
EXTENDS Integers, Sequences, FiniteSets, TLC

VARIABLES
    funcs,          \* vm.funcs: goFunction or compiledFunction{code, codeMeta, asm}
    nativeBackend,  \* vm.nativeBackend # nil
    pc,             \* position of tryNativeCompile
    i,              \* index of the function loop (0-based, as in the source)
    candidates,     \* result of Scanner.ScanFunc for funcs[i]
    k,              \* index of the candidate loop (0-based)
    fnAsm,          \* fn.asm of the local copy fn := vm.funcs[i]
    asm,            \* result of Builder.Build for the current candidate
    unit,           \* result of allocator.AllocateExec for the current candidate
    err,            \* return value: "running", "nil" or "error"
    execMem,        \* executable memory handed out by the allocator, one entry per unit
    log,            \* history: the calls made and the writes done, in order
    orig,           \* history: vm.funcs as constructed
    run,            \* number of the current call of tryNativeCompile
    runtime,        \* runtime.GOARCH and runtime.GOOS of the host
    ctx,            \* vm.ctx of the running interpreter: asm, pc, and the calls of Invoke
    allocator,      \* the MMapAllocator: last, blocks
    mmapBlocks,     \* every mmapBlock made so far, with the region it maps
    handed,         \* history: the results of AllocateExec, in order
    closed,         \* history: the result of Close and the calls of Unmap it made
    regs,           \* dirtyRegs of the Build in progress
    machine,        \* registers and memory of the CPU running a native block
    emitted         \* history: the primitives emitted into the block, in order

allocVars == <<allocator, mmapBlocks, handed, closed>>

execVars == <<regs, machine, emitted>>

vars == <<funcs, nativeBackend, pc, i, candidates, k, fnAsm, asm, unit, err,
          execMem, log, orig, run, runtime, ctx, allocVars, execVars>>

----------------------------------------------------------------------------
(* Opcode catalog (wasm/operators), byte values of the instruction set.    *)

Unreachable == 0
GetLocal == 32
SetGlobal == 36
I64Const == 66
I64Add == 124
I64Sub == 125
I64Mul == 126
I64And == 131
I64Or == 132
WagonNativeExec == 254

(* Parameters which decide when a sequence should be compiled.             *)
minInstBytes == 5
minArithInstructionSequence == 2

(* Bounds of the model.                                                    *)
MaxInsts == 7      \* instructions of a function in the scanner specification
MaxTargets == 1    \* inbound branch targets of a function
MaxGroups == 3     \* instruction groups of a VM in the driver specification
MaxFuncs == 2      \* functions of a VM
MaxRuns == 2       \* calls of tryNativeCompile in the re-run specification
MaxAllocs == 3     \* calls of AllocateExec in the allocator specification
MaxBuildInsts == 3 \* instructions of a function in the Build specification
MaxPrims == 3      \* primitives between preamble and postamble of a native block
StackCap == 4      \* capacity of the stack slice a native block is entered with

----------------------------------------------------------------------------
(* Little-endian integers, as encoding/binary reads and writes them.       *)

RECURSIVE LittleEndianUint(_)
LittleEndianUint(bytes) ==
    IF bytes = <<>> THEN 0
    ELSE Head(bytes) + 256 * LittleEndianUint(Tail(bytes))

PutUint32(v) ==
    << v % 256, (v \div 256) % 256, (v \div 65536) % 256, (v \div 16777216) % 256 >>

\* code[from:to] of a Go slice
Slice(code, from, to) == SubSeq(code, from + 1, to)

\* code with bytes written at offset at, at+1, ...
WriteAt(code, at, bytes) ==
    [b \in 1..Len(code) |->
        IF b - 1 >= at /\ b - 1 < at + Len(bytes) THEN bytes[b - at] ELSE code[b]]

----------------------------------------------------------------------------
(* Sequence scanner.                                                       *)

\* AMD64Backend.Scanner: the supported set of the backend
supportedOpcodes == {I64Const, I64Add, I64Sub, I64And, I64Or, I64Mul, GetLocal}

EmptyMetrics ==
    [MemoryReads |-> 0, MemoryWrites |-> 0, StackReads |-> 0, StackWrites |-> 0,
     AllOps |-> 0, IntegerOps |-> 0, FloatOps |-> 0]

\* CompilationCandidate{End: end, Metrics: &Metrics{}}: the other fields are zero
ZeroCandidate(end) ==
    [Beginning |-> 0, End |-> end, StartInstruction |-> 0, EndInstruction |-> 0,
     Metrics |-> EmptyMetrics]

Bounds(c) == <<c.Beginning, c.End>>

\* mutant: the lookup uses the offset after the instruction
isInsideBranchTargetAtEnd(meta, inst) ==
    (inst.Start + inst.Size) \in meta.InboundTargets /\ inst.Start > 0

isInsideBranchTarget(meta, inst) ==
    inst.Start \in meta.InboundTargets /\ inst.Start > 0

\* mutant: the supported set is not consulted
closesCandidateOnTargetOnly(supported, meta, inst) ==
    isInsideBranchTarget(meta, inst)

\* mutant: branch targets are not consulted
closesCandidateUnsupportedOnly(supported, meta, inst) ==
    inst.Op \notin supported

\* the condition that closes the running candidate
closesCandidate(supported, meta, inst) ==
    inst.Op \notin supported \/ isInsideBranchTarget(meta, inst)

\* mutant: a candidate of two instructions can be emitted
emittableFromTwo(c) == c.Metrics.AllOps >= 2

\* "See if the candidate can be emitted."
emittable(c) == c.Metrics.AllOps > 2

\* mutant: the running candidate is kept after it was emitted
resetCandidateKept(inProgress) == inProgress

\* the candidate after an instruction closed the previous one
resetCandidate(inProgress) == ZeroCandidate(0)

\* mutant: the end cursor is advanced by the size of the instruction
candidateEndAdvanced(inProgress, inst) == inProgress.End + inst.Size

\* the end cursor after extending the candidate by inst
candidateEnd(inProgress, inst) == inst.Start + inst.Size

\* the metrics switch and the AllOps increment
accumulateMetrics(m, op) ==
    LET m1 == IF op = I64Const
              THEN [m EXCEPT !.IntegerOps = @ + 1, !.StackWrites = @ + 1]
              ELSE IF op \in {I64Add, I64Sub}
              THEN [m EXCEPT !.IntegerOps = @ + 1, !.StackReads = @ + 2,
                             !.StackWrites = @ + 1]
              ELSE m
    IN [m1 EXCEPT !.AllOps = @ + 1]

\* one iteration of the loop over meta.Instructions, j the 0-based index
scanInstruction(supported, meta, st, j) ==
    LET inst == meta.Instructions[j + 1]
        inProgress == st.inProgress
    IN IF closesCandidate(supported, meta, inst)
       THEN [finishedCandidates |->
                IF emittable(inProgress)
                THEN Append(st.finishedCandidates, inProgress)
                ELSE st.finishedCandidates,
             inProgress |-> resetCandidate(inProgress)]
       ELSE LET first == IF inProgress.Metrics.AllOps = 0
                         THEN [inProgress EXCEPT !.Beginning = inst.Start,
                                                 !.StartInstruction = j]
                         ELSE inProgress
            IN [finishedCandidates |-> st.finishedCandidates,
                inProgress |->
                    [first EXCEPT !.EndInstruction = j,
                                  !.End = candidateEnd(inProgress, inst),
                                  !.Metrics = accumulateMetrics(@, inst.Op)]]

RECURSIVE scanLoop(_, _, _)
scanLoop(supported, meta, n) ==
    IF n = 0
    THEN [finishedCandidates |-> <<>>, inProgress |-> ZeroCandidate(1)]
    ELSE LET prev == {scanLoop(supported, meta, n - 1)}
         IN CHOOSE st \in {scanInstruction(supported, meta, p, n - 1) : p \in prev} : TRUE

ScanFunc(supported, meta) ==
    LET st == scanLoop(supported, meta, Len(meta.Instructions))
    IN IF emittable(st.inProgress)
       THEN Append(st.finishedCandidates, st.inProgress)
       ELSE st.finishedCandidates

----------------------------------------------------------------------------
(* AMD64 backend: Build.                                                   *)

\* mutant: the bytes are read from the opcode on
readIntImmediateFromOpcode(code, inst) ==
    LET raw == Slice(code, inst.Start, inst.Start + inst.Size - 1)
    IN IF inst.Size = 5
       THEN [j \in 1..8 |-> IF j <= 4 THEN raw[j] ELSE 0]
       ELSE raw

\* the immediate as a uint64, eight bytes with the least significant first: a
\* 4-byte immediate is widened with zeros
readIntImmediate(code, inst) ==
    LET raw == Slice(code, inst.Start + 1, inst.Start + inst.Size)
    IN IF inst.Size = 5
       THEN [j \in 1..8 |-> IF j <= 4 THEN raw[j] ELSE 0]
       ELSE raw

\* the primitive Build emits for one instruction, "none" in the default case
primitiveOf(code, inst) ==
    IF inst.Op = I64Const
    THEN [prim |-> "pushI64", arg |-> readIntImmediate(code, inst)]
    ELSE IF inst.Op = GetLocal
    THEN [prim |-> "localsLoadPush", arg |-> readIntImmediate(code, inst)]
    ELSE IF inst.Op \in {I64Add, I64Sub, I64Mul, I64Or, I64And}
    THEN [prim |-> "binaryI64", arg |-> inst.Op]
    ELSE [prim |-> "none", arg |-> inst.Op]

\* mutant: an instruction in the default case is left out of the code
BuildSkipping(candidate, code, meta) ==
    LET n == candidate.EndInstruction - candidate.StartInstruction + 1
        prims == [j \in 1..n |->
                    primitiveOf(code, meta.Instructions[candidate.StartInstruction + j])]
        IsEmitted(p) == p.prim # "none"
    IN [failed |-> FALSE,
        out |-> <<[prim |-> "preamble", arg |-> 0]>> \o SelectSeq(prims, IsEmitted)
                \o <<[prim |-> "postamble", arg |-> 0]>>]

\* Build: preamble, one primitive per instruction of the candidate, postamble;
\* an error and no code when an instruction falls in the default case
Build(candidate, code, meta) ==
    LET n == candidate.EndInstruction - candidate.StartInstruction + 1
        prims == [j \in 1..n |->
                    primitiveOf(code, meta.Instructions[candidate.StartInstruction + j])]
    IN IF \E j \in 1..n : prims[j].prim = "none"
       THEN [failed |-> TRUE, out |-> <<>>]
       ELSE [failed |-> FALSE,
             out |-> <<[prim |-> "preamble", arg |-> 0]>> \o prims
                     \o <<[prim |-> "postamble", arg |-> 0]>>]

----------------------------------------------------------------------------
(* Functions as the loader hands them to the VM: fixed-width immediates,   *)
(* one InstructionMetadata per instruction, starts contiguous from 0.      *)

InstSize(op) ==
    IF op = I64Const THEN 9
    ELSE IF op \in {GetLocal, SetGlobal} THEN 5
    ELSE 1

InstBytes(op) ==
    IF op = I64Const THEN <<op, 12, 0, 0, 0, 0, 0, 0, 0>>
    ELSE IF op = GetLocal THEN <<op, 1, 0, 0, 0>>
    ELSE IF op = SetGlobal THEN <<op, 0, 0, 0, 0>>
    ELSE <<op>>

RECURSIVE Assemble(_)
Assemble(opseq) ==
    IF opseq = <<>> THEN <<>> ELSE InstBytes(Head(opseq)) \o Assemble(Tail(opseq))

RECURSIVE StartOf(_, _)
StartOf(opseq, j) ==
    IF j = 0 THEN 0 ELSE StartOf(opseq, j - 1) + InstSize(opseq[j])

Instructions(opseq) ==
    [j \in 1..Len(opseq) |->
        [Op |-> opseq[j], Start |-> StartOf(opseq, j - 1), Size |-> InstSize(opseq[j])]]

compiledFunction(opseq, targets) ==
    [kind |-> "compiled", code |-> Assemble(opseq),
     codeMeta |-> [Instructions |-> Instructions(opseq), InboundTargets |-> targets],
     asm |-> <<>>]

goFunction == [kind |-> "go"]

\* the inbound targets of a function: the starts of the instructions numbered
\* by sel, which holds at most MaxTargets instruction numbers
TargetSelections(n) == {sel \in SUBSET (1..n) : Cardinality(sel) <= MaxTargets}

TargetsOf(opseq, sel) == {StartOf(opseq, j - 1) : j \in sel}

\* functions of the scanner specification: any stream of at most MaxInsts
\* instructions over these opcodes
ScanOps == {I64Const, I64Mul, SetGlobal}

\* functions of the driver specification: concatenations of these groups
Groups ==
    << <<I64Const, I64Const, I64Add>>,
       <<GetLocal, GetLocal, I64Mul>>,
       <<I64Add, I64Sub, I64Add>>,
       <<SetGlobal>> >>

RECURSIVE OpsOf(_)
OpsOf(shape) == IF shape = <<>> THEN <<>> ELSE Groups[Head(shape)] \o OpsOf(Tail(shape))

\* the shapes of the VMs of at most nf functions made of at most ng groups in
\* total: a function is a sequence of group numbers, <<>> for a host function
RECURSIVE VMShapes(_, _)
VMShapes(nf, ng) ==
    IF nf = 0 THEN {<<>>}
    ELSE {<<>>}
         \cup {<<<<>>>> \o rest : rest \in VMShapes(nf - 1, ng)}
         \cup UNION {{<<f>> \o rest : f \in [1..g -> 1..Len(Groups)],
                                      rest \in VMShapes(nf - 1, ng - g)} :
                        g \in 1..ng}

\* the byte offset at which group number p of a function begins
GroupStart(shape, p) == Len(Assemble(OpsOf(SubSeq(shape, 1, p - 1))))

\* the function of a shape; its inbound targets are the starts of the groups
\* numbered by sel
functionOf(shape, sel) ==
    IF shape = <<>> THEN goFunction
    ELSE compiledFunction(OpsOf(shape), {GroupStart(shape, p) : p \in sel})

----------------------------------------------------------------------------
(* Backend selection: nativeBackend().                                     *)

\* the registered variants: the AMD64 backend on Linux
supportedNativeArchs == <<[Arch |-> "amd64", OS |-> "linux"]>>

\* the hosts a VM may be constructed on
Hosts == [GOARCH : {"amd64", "arm64"}, GOOS : {"linux", "darwin"}]

\* mutant: the operating system is not compared
nativeBackendForArchOnly(host) ==
    \E c \in 1..Len(supportedNativeArchs) :
        supportedNativeArchs[c].Arch = host.GOARCH

\* nativeBackend(): true when a variant has the Arch and the OS of the host
nativeBackendFor(host) ==
    \E c \in 1..Len(supportedNativeArchs) :
        /\ supportedNativeArchs[c].Arch = host.GOARCH
        /\ supportedNativeArchs[c].OS = host.GOOS

----------------------------------------------------------------------------
(* The parts of the VM that tryNativeCompile does not use.                 *)

NoContext == [asm |-> <<>>, pc |-> 0, invoked |-> <<>>]

AllocatorUnused ==
    /\ allocator = [pkg |-> "compile", last |-> 0, blocks |-> <<>>]
    /\ mmapBlocks = <<>>
    /\ handed = <<>>
    /\ closed = [err |-> "none", unmaps |-> <<>>]

MachineUnused ==
    /\ regs = [R12 |-> FALSE, R13 |-> FALSE]
    /\ machine = [at |-> "unused"]
    /\ emitted = <<>>

----------------------------------------------------------------------------
(* Native-compile driver: VM.tryNativeCompile, one action per step.        *)

Event(ev, fn, cand, ok) == [ev |-> ev, fn |-> fn, cand |-> cand, ok |-> ok]

\* mutant: the size test is missing
passesFiltersDensityOnly(c) ==
    ~((c.Metrics.IntegerOps + c.Metrics.FloatOps) < minArithInstructionSequence)

\* the two tests a candidate must pass to be compiled
passesFilters(c) ==
    /\ ~((c.Metrics.IntegerOps + c.Metrics.FloatOps) < minArithInstructionSequence)
    /\ ~((Bounds(c)[2] - Bounds(c)[1]) < minInstBytes)

\* mutant: the fill runs one byte past the candidate
fillEndPastUpper(upper) == upper + 1

\* last offset (exclusive) of the Unreachable fill
fillEnd(upper) == upper - 1

\* mutant: the index written is the length of fn.asm
blockIndexLen(blocks) == Len(blocks)

\* uint32(len(fn.asm)-1), the index the prologue encodes
blockIndex(blocks) == Len(blocks) - 1

\* the bytecode after patching the range lower..upper for block number index
patch(code, lower, upper, index) ==
    LET c1 == WriteAt(code, lower, <<WagonNativeExec>>)
        c2 == WriteAt(c1, lower + 1, PutUint32(index))
    IN [b \in 1..Len(c2) |->
          IF b - 1 >= lower + 5 /\ b - 1 < fillEnd(upper) THEN Unreachable ELSE c2[b]]

Return(e) ==
    /\ pc' = "done"
    /\ err' = e

InitCommon ==
    /\ pc = "start"
    /\ i = 0
    /\ candidates = <<>>
    /\ k = 0
    /\ fnAsm = <<>>
    /\ asm = <<>>
    /\ unit = 0
    /\ err = "running"
    /\ execMem = <<>>
    /\ log = <<>>
    /\ orig = funcs
    /\ run = 1

Init ==
    /\ \E shape \in VMShapes(MaxFuncs, MaxGroups) :
         \E sel \in [1..Len(shape) -> TargetSelections(MaxGroups)] :
            /\ \A f \in 1..Len(shape) : sel[f] \subseteq 1..Len(shape[f])
            /\ funcs = [f \in 1..Len(shape) |-> functionOf(shape[f], sel[f])]
    /\ runtime \in Hosts
    /\ nativeBackend = nativeBackendFor(runtime)
    /\ InitCommon
    /\ ctx = NoContext
    /\ AllocatorUnused
    /\ MachineUnused

\* if vm.nativeBackend == nil { return nil }
StartStep ==
    /\ pc = "start"
    /\ IF ~nativeBackend
       THEN Return("nil") /\ UNCHANGED i
       ELSE pc' = "func" /\ i' = 0 /\ UNCHANGED err
    /\ UNCHANGED <<runtime, ctx, allocVars, execVars>>
    /\ UNCHANGED <<funcs, nativeBackend, candidates, k, fnAsm, asm, unit, execMem,
                   log, orig, run>>

\* the function loop is over: return nil
LoopExit ==
    /\ pc = "func"
    /\ i >= Len(funcs)
    /\ Return("nil")
    /\ UNCHANGED <<runtime, ctx, allocVars, execVars>>
    /\ UNCHANGED <<funcs, nativeBackend, i, candidates, k, fnAsm, asm, unit, execMem,
                   log, orig, run>>

\* host functions are skipped
SkipGoFunc ==
    /\ pc = "func"
    /\ i < Len(funcs)
    /\ funcs[i + 1].kind = "go"
    /\ i' = i + 1
    /\ UNCHANGED <<runtime, ctx, allocVars, execVars>>
    /\ UNCHANGED <<funcs, nativeBackend, pc, candidates, k, fnAsm, asm, unit, err,
                   execMem, log, orig, run>>

\* fn := vm.funcs[i]; candidates, err := Scanner.ScanFunc(fn.code, fn.codeMeta)
ScanStep ==
    /\ pc = "func"
    /\ i < Len(funcs)
    /\ funcs[i + 1].kind = "compiled"
    /\ candidates' = ScanFunc(supportedOpcodes, funcs[i + 1].codeMeta)
    /\ fnAsm' = funcs[i + 1].asm
    /\ k' = 0
    /\ pc' = "cand"
    /\ log' = Append(log, Event("Scan", i, 0, TRUE))
    /\ UNCHANGED <<runtime, ctx, allocVars, execVars>>
    /\ UNCHANGED <<funcs, nativeBackend, i, asm, unit, err, execMem, orig, run>>

\* a sequenceScanner may return an error: the driver returns it
ScanStepError ==
    /\ pc = "func"
    /\ i < Len(funcs)
    /\ funcs[i + 1].kind = "compiled"
    /\ log' = Append(log, Event("Scan", i, 0, FALSE))
    /\ Return("error")
    /\ UNCHANGED <<runtime, ctx, allocVars, execVars>>
    /\ UNCHANGED <<funcs, nativeBackend, i, candidates, k, fnAsm, asm, unit, execMem,
                   orig, run>>

\* the candidate loop is over: vm.funcs[i] = fn
StoreFn ==
    /\ pc = "cand"
    /\ k >= Len(candidates)
    /\ funcs' = [funcs EXCEPT ![i + 1].asm = fnAsm]
    /\ i' = i + 1
    /\ pc' = "func"
    /\ UNCHANGED <<runtime, ctx, allocVars, execVars>>
    /\ UNCHANGED <<nativeBackend, candidates, k, fnAsm, asm, unit, err, execMem, log,
                   orig, run>>

\* a candidate failing a test is skipped (continue)
SkipCandidate ==
    /\ pc = "cand"
    /\ k < Len(candidates)
    /\ ~passesFilters(candidates[k + 1])
    /\ k' = k + 1
    /\ UNCHANGED <<runtime, ctx, allocVars, execVars>>
    /\ UNCHANGED <<funcs, nativeBackend, pc, i, candidates, fnAsm, asm, unit, err,
                   execMem, log, orig, run>>

\* mutant: the error of Build is dropped and the loop continues
BuildStepErrorSwallowed ==
    /\ pc = "cand"
    /\ k < Len(candidates)
    /\ passesFilters(candidates[k + 1])
    /\ log' = Append(log, Event("Build", i, k, FALSE))
    /\ k' = k + 1
    /\ UNCHANGED <<runtime, ctx, allocVars, execVars>>
    /\ UNCHANGED <<funcs, nativeBackend, pc, i, candidates, fnAsm, asm, unit, err,
                   execMem, orig, run>>

\* asm, err := Builder.Build(candidate, fn.code, fn.codeMeta), err == nil
BuildStep ==
    /\ pc = "cand"
    /\ k < Len(candidates)
    /\ passesFilters(candidates[k + 1])
    /\ LET r == Build(candidates[k + 1], funcs[i + 1].code, funcs[i + 1].codeMeta)
       IN /\ ~r.failed
          /\ asm' = r.out
    /\ pc' = "alloc"
    /\ log' = Append(log, Event("Build", i, k, TRUE))
    /\ UNCHANGED <<runtime, ctx, allocVars, execVars>>
    /\ UNCHANGED <<funcs, nativeBackend, i, candidates, k, fnAsm, unit, err, execMem,
                   orig, run>>

\* Build returned an error (the assembler could not be set up, or an opcode
\* the emitter does not implement): the driver returns it
BuildStepError ==
    /\ pc = "cand"
    /\ k < Len(candidates)
    /\ passesFilters(candidates[k + 1])
    /\ log' = Append(log, Event("Build", i, k, FALSE))
    /\ Return("error")
    /\ UNCHANGED <<runtime, ctx, allocVars, execVars>>
    /\ UNCHANGED <<funcs, nativeBackend, i, candidates, k, fnAsm, asm, unit, execMem,
                   orig, run>>

\* unit, err := allocator.AllocateExec(asm), err == nil: asm is copied into
\* executable memory
AllocStep ==
    /\ pc = "alloc"
    /\ execMem' = Append(execMem, asm)
    /\ unit' = Len(execMem) + 1
    /\ pc' = "append"
    /\ log' = Append(log, Event("Alloc", i, k, TRUE))
    /\ UNCHANGED <<runtime, ctx, allocVars, execVars>>
    /\ UNCHANGED <<funcs, nativeBackend, i, candidates, k, fnAsm, asm, err, orig, run>>

\* mutant: the error of AllocateExec is not checked
AllocStepErrorUnchecked ==
    /\ pc = "alloc"
    /\ log' = Append(log, Event("Alloc", i, k, FALSE))
    /\ unit' = 0
    /\ pc' = "append"
    /\ UNCHANGED <<runtime, ctx, allocVars, execVars>>
    /\ UNCHANGED <<funcs, nativeBackend, i, candidates, k, fnAsm, asm, err, execMem,
                   orig, run>>

\* the page could not be mapped: the driver returns the error
AllocStepError ==
    /\ pc = "alloc"
    /\ log' = Append(log, Event("Alloc", i, k, FALSE))
    /\ Return("error")
    /\ UNCHANGED <<runtime, ctx, allocVars, execVars>>
    /\ UNCHANGED <<funcs, nativeBackend, i, candidates, k, fnAsm, asm, unit, execMem,
                   orig, run>>

\* mutant: the block resumes one byte after the upper bound
resumePCPastUpper(upper) == upper + 1

\* resumePC of the block appended for a candidate with this upper bound
resumePC(upper) == upper

\* fn.asm = append(fn.asm, asmBlock{nativeUnit: unit, resumePC: upper})
AppendStep ==
    /\ pc = "append"
    /\ fnAsm' = Append(fnAsm, [nativeUnit |-> unit,
                               resumePC |-> resumePC(Bounds(candidates[k + 1])[2])])
    /\ pc' = "patch"
    /\ log' = Append(log, Event("Append", i, k, TRUE))
    /\ UNCHANGED <<runtime, ctx, allocVars, execVars>>
    /\ UNCHANGED <<funcs, nativeBackend, i, candidates, k, asm, unit, err, execMem,
                   orig, run>>

\* the writes into fn.code, which is the buffer of vm.funcs[i]
PatchStep ==
    /\ pc = "patch"
    /\ LET lower == Bounds(candidates[k + 1])[1]
           upper == Bounds(candidates[k + 1])[2]
       IN funcs' = [funcs EXCEPT ![i + 1].code = patch(@, lower, upper, blockIndex(fnAsm))]
    /\ k' = k + 1
    /\ pc' = "cand"
    /\ log' = Append(log, Event("Patch", i, k, TRUE))
    /\ UNCHANGED <<runtime, ctx, allocVars, execVars>>
    /\ UNCHANGED <<nativeBackend, i, candidates, fnAsm, asm, unit, err, execMem, orig,
                   run>>

Next ==
    \/ StartStep
    \/ LoopExit
    \/ SkipGoFunc
    \/ ScanStep
    \/ ScanStepError
    \/ StoreFn
    \/ SkipCandidate
    \/ BuildStep
    \/ BuildStepError
    \/ AllocStep
    \/ AllocStepError
    \/ AppendStep
    \/ PatchStep

Spec == Init /\ [][Next]_vars

(* The scanner on any function: the driver up to the end of the scan.      *)
InitScan ==
    /\ \E m \in 0..MaxInsts :
         \E opseq \in [1..m -> ScanOps] :
            \E sel \in TargetSelections(m) :
               funcs = <<compiledFunction(opseq, TargetsOf(opseq, sel))>>
    /\ runtime = [GOARCH |-> "amd64", GOOS |-> "linux"]
    /\ nativeBackend = nativeBackendFor(runtime)
    /\ InitCommon
    /\ ctx = NoContext
    /\ AllocatorUnused
    /\ MachineUnused

NextScan ==
    \/ StartStep
    \/ ScanStep

SpecScan == InitScan /\ [][NextScan]_vars

(* tryNativeCompile called again on the VM it has already compiled.        *)
Rerun ==
    /\ pc = "done"
    /\ err = "nil"
    /\ run < MaxRuns
    /\ run' = run + 1
    /\ pc' = "start"
    /\ err' = "running"
    /\ UNCHANGED <<runtime, ctx, allocVars, execVars>>
    /\ UNCHANGED <<funcs, nativeBackend, i, candidates, k, fnAsm, asm, unit, execMem,
                   log, orig>>

NextTwice ==
    \/ Next
    \/ Rerun

SpecTwice == Init /\ [][NextTwice]_vars

(* The interpreter after a successful tryNativeCompile: it runs a function *)
(* f, whose call made vm.ctx.asm the asm list of f, meets a NativeExec     *)
(* prologue and calls nativeCodeInvocation with the index it encodes.      *)
(* A nativeUnit is behind an interface: its call is recorded with the      *)
(* descriptors it was given.                                               *)
nativeCodeInvocation ==
    /\ pc = "done"
    /\ err = "nil"
    /\ \E f \in 1..Len(funcs) :
         /\ funcs[f].kind = "compiled"
         /\ \E asmIndex \in 0..(Len(funcs[f].asm) - 1) :
              LET block == funcs[f].asm[asmIndex + 1]
              IN ctx' = [asm |-> funcs[f].asm,
                         invoked |-> <<[nativeUnit |-> block.nativeUnit,
                                        stack |-> "vm.ctx.stack",
                                        locals |-> "vm.ctx.locals"]>>,
                         pc |-> block.resumePC]
    /\ UNCHANGED <<funcs, nativeBackend, pc, i, candidates, k, fnAsm, asm, unit, err,
                   execMem, log, orig, run, runtime, allocVars, execVars>>

NextInvoke ==
    \/ Next
    \/ nativeCodeInvocation

SpecInvoke == Init /\ [][NextInvoke]_vars

----------------------------------------------------------------------------
(* 64-bit words: eight bytes, the least significant first.                 *)

RECURSIVE BytesOf(_, _)
BytesOf(n, len) ==
    IF len = 0 THEN <<>> ELSE <<n % 256>> \o BytesOf(n \div 256, len - 1)

\* the word of a number below 2^31
Word(n) == BytesOf(n, 8)

AllOnes == [j \in 1..8 |-> 255]

\* a + b + carry on byte strings of one length, the last carry dropped
RECURSIVE addBytes(_, _, _)
addBytes(a, b, carry) ==
    IF a = <<>> THEN <<>>
    ELSE CHOOSE r \in {<<s % 256>> \o addBytes(Tail(a), Tail(b), s \div 256) :
                         s \in {Head(a) + Head(b) + carry}} : TRUE

notBytes(a) == [j \in 1..Len(a) |-> 255 - a[j]]

RECURSIVE andByte(_, _)
andByte(x, y) ==
    IF x = 0 \/ y = 0 THEN 0
    ELSE (x % 2) * (y % 2) + 2 * andByte(x \div 2, y \div 2)

\* the sum of the byte products of column col of a * b
RECURSIVE columnSum(_, _, _, _)
columnSum(a, b, col, j) ==
    IF j > 8 THEN 0
    ELSE (IF col - j + 1 \in 1..8 THEN a[j] * b[col - j + 1] ELSE 0)
         + columnSum(a, b, col, j + 1)

\* the bytes col.. of the 16-byte product a * b
RECURSIVE mulBytes(_, _, _, _)
mulBytes(a, b, col, carry) ==
    IF col > 16 THEN <<>>
    ELSE CHOOSE r \in {<<s % 256>> \o mulBytes(a, b, col + 1, s \div 256) :
                         s \in {columnSum(a, b, col, 1) + carry}} : TRUE

----------------------------------------------------------------------------
(* AMD64 backend: the emitter. A builder is [prog, regs]: the instructions *)
(* added so far and the dirtyRegs of the Build. An instruction is          *)
(* [as, from, to], an operand a register, a constant or a memory place     *)
(* base + offset + index * scale.                                          *)

NoOperand ==
    [type |-> "NONE", reg |-> "", offset |-> 0, index |-> "", scale |-> 0,
     const |-> Word(0)]

RegOperand(reg) == [NoOperand EXCEPT !.type = "REG", !.reg = reg]

ConstOperand(c) == [NoOperand EXCEPT !.type = "CONST", !.const = c]

MemOperand(base, offset) ==
    [NoOperand EXCEPT !.type = "MEM", !.reg = base, !.offset = offset]

IndexedOperand(base, index, scale) ==
    [NoOperand EXCEPT !.type = "MEM", !.reg = base, !.index = index, !.scale = scale]

Prog(as, from, to) == [as |-> as, from |-> from, to |-> to]

NewBuilder == [prog |-> <<>>, regs |-> [R12 |-> FALSE, R13 |-> FALSE]]

AddInstruction(b, prog) == [b EXCEPT !.prog = Append(@, prog)]

AddInstructions(b, progs) == [b EXCEPT !.prog = @ \o progs]

\* emitPreamble loads the address of the stack slice & locals into R10 and R11
emitPreamble(b) ==
    AddInstructions(b,
        <<Prog("MOVQ", MemOperand("SP", 8), RegOperand("R10")),
          Prog("MOVQ", MemOperand("SP", 16), RegOperand("R11"))>>)

\* movq r13, [r10+8] (optional); regs.R13 = true
loadStackSize(b) ==
    IF ~b.regs.R13
    THEN [AddInstruction(b, Prog("MOVQ", MemOperand("R10", 8), RegOperand("R13")))
            EXCEPT !.regs.R13 = TRUE]
    ELSE b

\* movq r12, [r10] (optional)
loadStackPointer(b) ==
    IF ~b.regs.R12
    THEN AddInstruction(b, Prog("MOVQ", MemOperand("R10", 0), RegOperand("R12")))
    ELSE b

\* decq r13; leaq r12, [r12 + r13*8]; movq reg, [r12]
emitWasmStackLoad(b, reg) ==
    LET b1 == AddInstruction(loadStackSize(b), Prog("DECQ", NoOperand, RegOperand("R13")))
    IN AddInstructions(loadStackPointer(b1),
          <<Prog("LEAQ", IndexedOperand("R12", "R13", 8), RegOperand("R12")),
            Prog("MOVQ", MemOperand("R12", 0), RegOperand(reg))>>)

\* leaq r12, [r12 + r13*8]; movq [r12], reg; incq r13
emitWasmStackPush(b, reg) ==
    AddInstructions(loadStackPointer(loadStackSize(b)),
        <<Prog("LEAQ", IndexedOperand("R12", "R13", 8), RegOperand("R12")),
          Prog("MOVQ", RegOperand(reg), MemOperand("R12", 0)),
          Prog("INCQ", NoOperand, RegOperand("R13"))>>)

\* mutant: the index is left out of the address
emitWasmLocalsLoadFirst(b, reg, index) ==
    AddInstructions(b,
        <<Prog("MOVQ", ConstOperand(index), RegOperand("BX")),
          Prog("MOVQ", MemOperand("R11", 0), RegOperand("CX")),
          Prog("LEAQ", MemOperand("CX", 0), RegOperand("CX")),
          Prog("MOVQ", MemOperand("CX", 0), RegOperand(reg))>>)

\* movq rbx, $(index); movq rcx, [r11]; leaq rcx, [rcx + rbx*8]; movq reg, [rcx]
emitWasmLocalsLoad(b, reg, index) ==
    AddInstructions(b,
        <<Prog("MOVQ", ConstOperand(index), RegOperand("BX")),
          Prog("MOVQ", MemOperand("R11", 0), RegOperand("CX")),
          Prog("LEAQ", IndexedOperand("CX", "BX", 8), RegOperand("CX")),
          Prog("MOVQ", MemOperand("CX", 0), RegOperand(reg))>>)

\* the instruction of a binary operator: R9 is the source, RAX the
\* destination, and MULQ has R9 as its only operand
binaryProg(op) ==
    IF op = I64Add THEN Prog("ADDQ", RegOperand("R9"), RegOperand("AX"))
    ELSE IF op = I64Sub THEN Prog("SUBQ", RegOperand("R9"), RegOperand("AX"))
    ELSE IF op = I64And THEN Prog("ANDQ", RegOperand("R9"), RegOperand("AX"))
    ELSE IF op = I64Or THEN Prog("ORQ", RegOperand("R9"), RegOperand("AX"))
    ELSE Prog("MULQ", RegOperand("R9"), NoOperand)

\* mutant: the top of the stack is loaded into RAX and the element below into R9
emitBinaryI64Swapped(b, op) ==
    LET b1 == emitWasmStackLoad(emitWasmStackLoad(b, "AX"), "R9")
    IN emitWasmStackPush(AddInstruction(b1, binaryProg(op)), "AX")

\* pop into R9, pop into RAX, the operator, push RAX
emitBinaryI64(b, op) ==
    LET b1 == emitWasmStackLoad(emitWasmStackLoad(b, "R9"), "AX")
    IN emitWasmStackPush(AddInstruction(b1, binaryProg(op)), "AX")

\* movq rax, $(c), push RAX
emitPushI64(b, c) ==
    emitWasmStackPush(
        AddInstruction(b, Prog("MOVQ", ConstOperand(c), RegOperand("AX"))), "AX")

\* mutant: the stack size is not written back
emitPostambleNoFlush(b) == AddInstruction(b, Prog("RET", NoOperand, NoOperand))

\* movq [r10+8], r13 when R13 is dirty; ret
emitPostamble(b) ==
    AddInstruction(
        IF b.regs.R13
        THEN AddInstruction(b, Prog("MOVQ", RegOperand("R13"), MemOperand("R10", 8)))
        ELSE b,
        Prog("RET", NoOperand, NoOperand))

\* what Build and the tests of the backend emit for a primitive p
emitPrimitive(b, p) ==
    IF p.prim = "preamble" THEN emitPreamble(b)
    ELSE IF p.prim = "pushI64" THEN emitPushI64(b, p.arg)
    ELSE IF p.prim = "localsLoadPush"
    THEN emitWasmStackPush(emitWasmLocalsLoad(b, "AX", p.arg), "AX")
    ELSE IF p.prim = "binaryI64" THEN emitBinaryI64(b, p.arg)
    ELSE IF p.prim = "stackLoad" THEN emitWasmStackLoad(b, p.arg)
    ELSE IF p.prim = "stackPush" THEN emitWasmStackPush(b, p.arg)
    ELSE emitPostamble(b)

----------------------------------------------------------------------------
(* The CPU on which a native block runs: the registers the emitter uses    *)
(* and the memory of the call, by address. An access outside that memory   *)
(* is undefined behaviour: the block is marked undefined and stops, and    *)
(* nothing is said of what follows.                                        *)

\* the address base + offset + index * scale of a memory operand
Address(m, operand) ==
    LET base == addBytes(m.reg[operand.reg], Word(operand.offset), 0)
    IN IF operand.index = "" THEN base
       ELSE addBytes(base,
                     SubSeq(mulBytes(m.reg[operand.index], Word(operand.scale), 1, 0), 1, 8),
                     0)

Undefined(m) == [m EXCEPT !.at = "undefined"]

SetReg(m, reg, w) == [m EXCEPT !.reg[reg] = w]

\* one instruction
Step(m, p) ==
    IF m.at = "undefined" \/ m.at = "returned" THEN m
    ELSE IF p.as = "RET" THEN [m EXCEPT !.at = "returned"]
    ELSE IF p.as = "MOVQ" /\ p.from.type = "CONST" THEN SetReg(m, p.to.reg, p.from.const)
    ELSE IF p.as = "MOVQ" /\ p.from.type = "MEM"
    THEN IF Address(m, p.from) \in DOMAIN m.mem
         THEN SetReg(m, p.to.reg, m.mem[Address(m, p.from)])
         ELSE Undefined(m)
    ELSE IF p.as = "MOVQ" /\ p.to.type = "MEM"
    THEN IF Address(m, p.to) \in DOMAIN m.mem
         THEN [m EXCEPT !.mem[Address(m, p.to)] = m.reg[p.from.reg]]
         ELSE Undefined(m)
    ELSE IF p.as = "LEAQ" THEN SetReg(m, p.to.reg, Address(m, p.from))
    ELSE IF p.as = "DECQ"
    THEN SetReg(m, p.to.reg, addBytes(m.reg[p.to.reg], AllOnes, 0))
    ELSE IF p.as = "INCQ"
    THEN SetReg(m, p.to.reg, addBytes(m.reg[p.to.reg], Word(1), 0))
    ELSE IF p.as = "ADDQ"
    THEN SetReg(m, p.to.reg, addBytes(m.reg[p.to.reg], m.reg[p.from.reg], 0))
    ELSE IF p.as = "SUBQ"
    THEN SetReg(m, p.to.reg, addBytes(m.reg[p.to.reg], notBytes(m.reg[p.from.reg]), 1))
    ELSE IF p.as = "ANDQ"
    THEN SetReg(m, p.to.reg,
                [j \in 1..8 |-> andByte(m.reg[p.to.reg][j], m.reg[p.from.reg][j])])
    ELSE IF p.as = "ORQ"
    THEN SetReg(m, p.to.reg,
                [j \in 1..8 |-> m.reg[p.to.reg][j] + m.reg[p.from.reg][j]
                                  - andByte(m.reg[p.to.reg][j], m.reg[p.from.reg][j])])
    ELSE \* MULQ: RDX:RAX = RAX * operand
         LET product == mulBytes(m.reg["AX"], m.reg[p.from.reg], 1, 0)
         IN SetReg(SetReg(m, "AX", SubSeq(product, 1, 8)), "DX", SubSeq(product, 9, 16))

\* the instructions of prog, in order: the first half, then the second half
\* on the state the first half left
RECURSIVE Run(_, _)
Run(m, prog) ==
    IF prog = <<>> THEN m
    ELSE IF Len(prog) = 1 THEN Step(m, prog[1])
    ELSE CHOOSE r \in {Run(n, SubSeq(prog, Len(prog) \div 2 + 1, Len(prog))) :
                          n \in {Run(m, SubSeq(prog, 1, Len(prog) \div 2))}} : TRUE

----------------------------------------------------------------------------
(* A native block emitted primitive by primitive and run as it is emitted: *)
(* the code is straight-line, so the instructions of a primitive run on    *)
(* the state the earlier primitives left. The caller's frame holds the     *)
(* addresses of the two slice headers at SP+8 and SP+16; a slice header is *)
(* the data pointer, the length and the capacity, 8 bytes each.            *)

StackHeader == Word(256)
LocalsHeader == Word(288)
StackData == Word(512)
LocalsData == Word(768)

\* the address of word number j after address w
WordAfter(w, j) == addBytes(w, Word(8 * j), 0)

\* the locals of the frame
Locals == <<Word(1335), Word(2)>>

\* the memory of a call with this stack: the frame, the headers, the stack up
\* to its capacity (zero beyond its length) and the locals
MemoryOf(stack) ==
    LET cells ==
          {<<Word(72), StackHeader>>, <<Word(80), LocalsHeader>>,
           <<StackHeader, StackData>>,
           <<WordAfter(StackHeader, 1), Word(Len(stack))>>,
           <<WordAfter(StackHeader, 2), Word(StackCap)>>,
           <<LocalsHeader, LocalsData>>,
           <<WordAfter(LocalsHeader, 1), Word(Len(Locals))>>,
           <<WordAfter(LocalsHeader, 2), Word(Len(Locals))>>}
          \cup {<<WordAfter(StackData, j),
                  IF j < Len(stack) THEN stack[j + 1] ELSE Word(0)>> : j \in 0..(StackCap - 1)}
          \cup {<<WordAfter(LocalsData, j), Locals[j + 1]>> : j \in 0..(Len(Locals) - 1)}
    IN [a \in {c[1] : c \in cells} |-> (CHOOSE c \in cells : c[1] = a)[2]]

Registers == {"SP", "AX", "BX", "CX", "DX", "R9", "R10", "R11", "R12", "R13"}

\* the values pushed as constants
Values == {Word(3), Word(12), AllOnes}

\* the stacks a block is entered with
EntryStacks == {<<>>, <<Word(12), Word(3)>>, <<Word(3), AllOnes>>}

\* a VM without functions
NoVM ==
    /\ funcs = <<>>
    /\ runtime = [GOARCH |-> "amd64", GOOS |-> "linux"]
    /\ nativeBackend = nativeBackendFor(runtime)
    /\ InitCommon
    /\ ctx = NoContext

InitExec ==
    /\ NoVM
    /\ AllocatorUnused
    /\ regs = NewBuilder.regs
    /\ emitted = <<>>
    /\ \E stack \in EntryStacks :
          machine = [at |-> "running",
                     reg |-> [r \in Registers |-> IF r = "SP" THEN Word(64) ELSE Word(0)],
                     mem |-> MemoryOf(stack),
                     entry |-> MemoryOf(stack)]

\* the primitive p is emitted with the dirtyRegs of the Build, and its
\* instructions run
EmitAndRun(p) ==
    LET b == emitPrimitive([prog |-> <<>>, regs |-> regs], p)
    IN /\ regs' = b.regs
       /\ machine' = Run(machine, b.prog)
       /\ emitted' = Append(emitted, p)
       /\ UNCHANGED <<funcs, nativeBackend, pc, i, candidates, k, fnAsm, asm, unit, err,
                      execMem, log, orig, run, runtime, ctx, allocVars>>

\* the block is between its preamble and its postamble, with room for a primitive
InBody ==
    /\ machine.at = "running"
    /\ emitted # <<>>
    /\ Len(emitted) <= MaxPrims

ExecPreamble ==
    /\ machine.at = "running"
    /\ emitted = <<>>
    /\ EmitAndRun([prim |-> "preamble", arg |-> 0])

ExecPushI64 ==
    /\ InBody
    /\ \E c \in Values : EmitAndRun([prim |-> "pushI64", arg |-> c])

ExecLocalsLoadPush ==
    /\ InBody
    /\ \E index \in 0..(Len(Locals) - 1) :
          EmitAndRun([prim |-> "localsLoadPush", arg |-> Word(index)])

ExecBinaryI64 ==
    /\ InBody
    /\ \E op \in {I64Add, I64Sub, I64Mul, I64Or, I64And} :
          EmitAndRun([prim |-> "binaryI64", arg |-> op])

\* emitWasmStackLoad into a scratch register, as the tests of the backend do
ExecStackLoad ==
    /\ InBody
    /\ \E reg \in {"AX", "BX"} : EmitAndRun([prim |-> "stackLoad", arg |-> reg])

\* emitWasmStackPush of RAX, once an earlier primitive has written RAX
ExecStackPush ==
    /\ InBody
    /\ \E e \in 2..Len(emitted) : emitted[e] # [prim |-> "stackLoad", arg |-> "BX"]
    /\ EmitAndRun([prim |-> "stackPush", arg |-> "AX"])

ExecPostamble ==
    /\ machine.at = "running"
    /\ emitted # <<>>
    /\ EmitAndRun([prim |-> "postamble", arg |-> 0])

NextExec ==
    \/ ExecPreamble
    \/ ExecPushI64
    \/ ExecLocalsLoadPush
    \/ ExecBinaryI64
    \/ ExecStackLoad
    \/ ExecStackPush
    \/ ExecPostamble

SpecExec == InitExec /\ [][NextExec]_vars

----------------------------------------------------------------------------
(* The stack primitives of amd64.go, which keep nothing in registers from  *)
(* one primitive to the next: each loads the length word, uses it and      *)
(* writes it back. Its blocks are emitted and run as above.                *)

\* movq r13, [r10+8]; decq r13; movq [r10+8], r13; movq r12, [r10];
\* leaq r12, [r12 + r13*8]; movq reg, [r12]
amd64_emitWasmStackLoad(b, reg) ==
    AddInstructions(b,
        <<Prog("MOVQ", MemOperand("R10", 8), RegOperand("R13")),
          Prog("DECQ", NoOperand, RegOperand("R13")),
          Prog("MOVQ", RegOperand("R13"), MemOperand("R10", 8)),
          Prog("MOVQ", MemOperand("R10", 0), RegOperand("R12")),
          Prog("LEAQ", IndexedOperand("R12", "R13", 8), RegOperand("R12")),
          Prog("MOVQ", MemOperand("R12", 0), RegOperand(reg))>>)

\* mutant: the length is incremented before the element is stored
amd64_emitWasmStackPushIncFirst(b, reg) ==
    AddInstructions(b,
        <<Prog("MOVQ", MemOperand("R10", 8), RegOperand("R13")),
          Prog("INCQ", NoOperand, RegOperand("R13")),
          Prog("MOVQ", MemOperand("R10", 0), RegOperand("R12")),
          Prog("LEAQ", IndexedOperand("R12", "R13", 8), RegOperand("R12")),
          Prog("MOVQ", RegOperand(reg), MemOperand("R12", 0)),
          Prog("MOVQ", RegOperand("R13"), MemOperand("R10", 8))>>)

\* movq r13, [r10+8]; movq r12, [r10]; leaq r12, [r12 + r13*8];
\* movq [r12], reg; incq r13; movq [r10+8], r13
amd64_emitWasmStackPush(b, reg) ==
    AddInstructions(b,
        <<Prog("MOVQ", MemOperand("R10", 8), RegOperand("R13")),
          Prog("MOVQ", MemOperand("R10", 0), RegOperand("R12")),
          Prog("LEAQ", IndexedOperand("R12", "R13", 8), RegOperand("R12")),
          Prog("MOVQ", RegOperand(reg), MemOperand("R12", 0)),
          Prog("INCQ", NoOperand, RegOperand("R13")),
          Prog("MOVQ", RegOperand("R13"), MemOperand("R10", 8))>>)

\* movq rax, $(c), push RAX
amd64_emitPushI64(b, c) ==
    amd64_emitWasmStackPush(
        AddInstruction(b, Prog("MOVQ", ConstOperand(c), RegOperand("AX"))), "AX")

\* the instructions of b run and the primitive p is recorded
amd64_Run(p, b) ==
    /\ machine' = Run(machine, b.prog)
    /\ emitted' = Append(emitted, p)
    /\ UNCHANGED <<funcs, nativeBackend, pc, i, candidates, k, fnAsm, asm, unit, err,
                   execMem, log, orig, run, runtime, ctx, allocVars, regs>>

StackPreamble ==
    /\ machine.at = "running"
    /\ emitted = <<>>
    /\ amd64_Run([prim |-> "preamble", arg |-> 0], emitPreamble(NewBuilder))

StackPushI64 ==
    /\ InBody
    /\ \E c \in Values :
          amd64_Run([prim |-> "pushI64", arg |-> c], amd64_emitPushI64(NewBuilder, c))

StackLoad ==
    /\ InBody
    /\ \E reg \in {"AX", "BX"} :
          amd64_Run([prim |-> "stackLoad", arg |-> reg],
                    amd64_emitWasmStackLoad(NewBuilder, reg))

\* a push of a register that an earlier primitive has written
StackPush ==
    /\ InBody
    /\ \E reg \in {"AX", "BX"} :
          /\ \E e \in 2..Len(emitted) :
                \/ emitted[e].prim = "pushI64" /\ reg = "AX"
                \/ emitted[e].prim = "stackLoad" /\ emitted[e].arg = reg
          /\ amd64_Run([prim |-> "stackPush", arg |-> reg],
                       amd64_emitWasmStackPush(NewBuilder, reg))

\* the ret that ends the block
StackRet ==
    /\ machine.at = "running"
    /\ emitted # <<>>
    /\ amd64_Run([prim |-> "ret", arg |-> 0],
                 AddInstruction(NewBuilder, Prog("RET", NoOperand, NoOperand)))

NextStack ==
    \/ StackPreamble
    \/ StackPushI64
    \/ StackLoad
    \/ StackPush
    \/ StackRet

SpecStack == InitExec /\ [][NextStack]_vars

(* Build on any candidate of any function: the instruction range need not *)
(* come from the scanner.                                                  *)
BuildOps == supportedOpcodes \cup {SetGlobal, Unreachable}

\* the candidate that covers instructions first..last (0-based) of opseq
candidateOver(opseq, first, last) ==
    [ZeroCandidate(StartOf(opseq, last + 1)) EXCEPT
        !.Beginning = StartOf(opseq, first),
        !.StartInstruction = first,
        !.EndInstruction = last]

InitBuild ==
    /\ \E m \in 1..MaxBuildInsts :
         \E opseq \in [1..m -> BuildOps] :
            \E first \in 0..(m - 1) :
               \E last \in first..(m - 1) :
                  /\ funcs = <<compiledFunction(opseq, {})>>
                  /\ candidates = <<candidateOver(opseq, first, last)>>
    /\ runtime = [GOARCH |-> "amd64", GOOS |-> "linux"]
    /\ nativeBackend = nativeBackendFor(runtime)
    /\ pc = "build"
    /\ i = 0
    /\ k = 0
    /\ fnAsm = <<>>
    /\ asm = <<>>
    /\ unit = 0
    /\ err = "running"
    /\ execMem = <<>>
    /\ log = <<>>
    /\ orig = funcs
    /\ run = 1
    /\ ctx = NoContext
    /\ AllocatorUnused
    /\ MachineUnused

\* asm, err := Build(candidate, fn.code, fn.codeMeta)
BuildCall ==
    /\ pc = "build"
    /\ LET r == Build(candidates[1], funcs[1].code, funcs[1].codeMeta)
       IN /\ asm' = r.out
          /\ err' = IF r.failed THEN "error" ELSE "nil"
    /\ pc' = "built"
    /\ UNCHANGED <<funcs, nativeBackend, i, candidates, k, fnAsm, unit, execMem, log,
                   orig, run, runtime, ctx, allocVars, execVars>>

\* asm.NewBuilder returned an error: Build returns nil and the error
BuildCallNoBuilder ==
    /\ pc = "build"
    /\ asm' = <<>>
    /\ err' = "error"
    /\ pc' = "built"
    /\ UNCHANGED <<funcs, nativeBackend, i, candidates, k, fnAsm, unit, execMem, log,
                   orig, run, runtime, ctx, allocVars, execVars>>

NextBuild ==
    \/ BuildCall
    \/ BuildCallNoBuilder

SpecBuild == InitBuild /\ [][NextBuild]_vars

----------------------------------------------------------------------------
(* Executable-memory allocators: the paged MMapAllocator of package        *)
(* exec/internal/compile/native and the MMapAllocator of package           *)
(* exec/internal/compile, which maps a region per call and has Close.      *)
(*                                                                         *)
(* A byte buffer is a record [len, bytes], bytes giving the non-zero bytes *)
(* by offset: a mapped region starts zeroed. allocator.last and the        *)
(* entries of allocator.blocks are 1-based positions in mmapBlocks, 0 nil. *)

native_minAllocSize == 32 * 1024
native_allocationAlignment == 2048 - 1

compile_minAllocSize == 1024
compile_allocationAlignment == 128 - 1

minAllocSizeOf(pkg) ==
    IF pkg = "native" THEN native_minAllocSize ELSE compile_minAllocSize

allocationAlignmentOf(pkg) ==
    IF pkg = "native" THEN native_allocationAlignment ELSE compile_allocationAlignment

ByteAt(buf, off) == IF off \in DOMAIN buf.bytes THEN buf.bytes[off] ELSE 0

\* the buffer after copy(buf[at:at+room], src): min(room, len(src)) bytes move
CopyAt(buf, at, room, src) ==
    LET n == IF src.len < room THEN src.len ELSE room
        kept == {o \in DOMAIN buf.bytes : o < at \/ o >= at + n}
        written == {at + d : d \in {e \in DOMAIN src.bytes : e < n}}
    IN [buf EXCEPT !.bytes = [o \in kept \cup written |->
                                 IF o \in written THEN src.bytes[o - at]
                                 ELSE buf.bytes[o]]]

\* mmap.MapRegion(nil, alloc, EXEC|RDWR, ANON, 0): a zeroed region
MapRegion(alloc) == [len |-> alloc, bytes |-> <<>>, mapped |-> TRUE]

\* mutant: the length is rounded down to the stride
alignedConsumptionDown(pkg, n) ==
    (n \div (allocationAlignmentOf(pkg) + 1)) * (allocationAlignmentOf(pkg) + 1)

\* uint32(len(asm)+allocationAlignment) & ^uint32(allocationAlignment): the
\* bits of the mask 2^k - 1 are cleared
alignedConsumption(pkg, n) ==
    (n + allocationAlignmentOf(pkg))
        - ((n + allocationAlignmentOf(pkg)) % (allocationAlignmentOf(pkg) + 1))

\* mutant: the region is as large as the larger of block size and consumption
regionSizeMax(pkg, consumed) ==
    IF consumed > minAllocSizeOf(pkg) THEN consumed ELSE minAllocSizeOf(pkg)

\* alloc := minAllocSize; if int(consumed) > alloc { alloc += int(consumed) }
regionSize(pkg, consumed) ==
    IF consumed > minAllocSizeOf(pkg)
    THEN minAllocSizeOf(pkg) + consumed
    ELSE minAllocSizeOf(pkg)

\* a > b for two uint32: a uint32 of 2^31 or more is written as the negative
\* number with the same 32 bits, so a difference that wraps is the negative
\* number the subtraction gives
uint32Greater(a, b) ==
    IF (a < 0) = (b < 0) THEN a > b ELSE a < 0

\* mutant: the room left on the last page is not compared
fitsLastAnyLength(code) == allocator.last # 0

\* mutant: a code as long as what remains is taken by the last page
fitsLastOrEqual(code) ==
    allocator.last # 0 /\ mmapBlocks[allocator.last].remaining >= code.len

\* a.last != nil && a.last.remaining > uint32(len(asm))
fitsLast(code) ==
    allocator.last # 0 /\ uint32Greater(mmapBlocks[allocator.last].remaining, code.len)

\* mutant: the code is copied at the start of the page
copyOffsetStart(block) == 0

\* the offset of the page at which the existing-page path copies the code
copyOffset(block) == block.consumed

\* mutant: the whole region is recorded as remaining
newBlockWhole(pkg, code) ==
    LET consumed == alignedConsumption(pkg, code.len)
        alloc == regionSize(pkg, consumed)
    IN [mem |-> CopyAt(MapRegion(alloc), 0, code.len, code),
        consumed |-> consumed,
        remaining |-> alloc]

\* &mmapBlock{mem: m, consumed: consumed, remaining: uint32(alloc) - consumed}
\* with the code copied to the start of m
newBlock(pkg, code) ==
    LET consumed == alignedConsumption(pkg, code.len)
        alloc == regionSize(pkg, consumed)
    IN [mem |-> CopyAt(MapRegion(alloc), 0, code.len, code),
        consumed |-> consumed,
        remaining |-> alloc - consumed]

\* the result of a call of AllocateExec
Handed(block, off, code, failed) ==
    [block |-> block, off |-> off, asm |-> code, err |-> failed]

\* the code of call number tag: n bytes, the first and the last non-zero
AsmOf(n, tag) ==
    [len |-> n,
     bytes |-> [o \in (IF n >= 1 THEN {0} ELSE {}) \cup (IF n >= 2 THEN {n - 1} ELSE {}) |->
                   IF o = 0 THEN tag ELSE 128 + tag]]

\* the lengths of the codes: empty, short, one stride, a block less one
\* stride, nearly a block, and more than a block
AsmLens(pkg) ==
    {0, 4, allocationAlignmentOf(pkg) + 1,
     minAllocSizeOf(pkg) - (allocationAlignmentOf(pkg) + 1), minAllocSizeOf(pkg) - 2,
     minAllocSizeOf(pkg) + 2 * (allocationAlignmentOf(pkg) + 1)}

\* native.MMapAllocator.AllocateExec, the code placed on the last page
native_AllocateExecLast ==
    /\ allocator.pkg = "native"
    /\ Len(handed) < MaxAllocs
    /\ \E n \in AsmLens("native") :
         LET code == AsmOf(n, Len(handed) + 1)
             last == mmapBlocks[allocator.last]
             at == copyOffset(last)
         IN /\ fitsLast(code)
            /\ mmapBlocks' =
                 [mmapBlocks EXCEPT ![allocator.last] =
                     [mem |-> CopyAt(last.mem, at, last.mem.len - at, code),
                      consumed |-> last.consumed + alignedConsumption("native", code.len),
                      remaining |-> last.remaining - alignedConsumption("native", code.len)]]
            /\ handed' = Append(handed, Handed(allocator.last, at, code, FALSE))
    /\ UNCHANGED <<allocator, closed>>
    /\ UNCHANGED <<funcs, nativeBackend, pc, i, candidates, k, fnAsm, asm, unit, err,
                   execMem, log, orig, run, runtime, ctx, execVars>>

\* native.MMapAllocator.AllocateExec, "can't use last allocation - make new block"
native_AllocateExecNew ==
    /\ allocator.pkg = "native"
    /\ Len(handed) < MaxAllocs
    /\ \E n \in AsmLens("native") :
         LET code == AsmOf(n, Len(handed) + 1)
         IN /\ ~fitsLast(code)
            /\ mmapBlocks' = Append(mmapBlocks, newBlock("native", code))
            /\ allocator' = [allocator EXCEPT !.last = Len(mmapBlocks) + 1]
            /\ handed' = Append(handed, Handed(Len(mmapBlocks) + 1, 0, code, FALSE))
    /\ UNCHANGED closed
    /\ UNCHANGED <<funcs, nativeBackend, pc, i, candidates, k, fnAsm, asm, unit, err,
                   execMem, log, orig, run, runtime, ctx, execVars>>

\* native.MMapAllocator.AllocateExec, MapRegion returned an error
native_AllocateExecError ==
    /\ allocator.pkg = "native"
    /\ Len(handed) < MaxAllocs
    /\ \E n \in AsmLens("native") :
         LET code == AsmOf(n, Len(handed) + 1)
         IN /\ ~fitsLast(code)
            /\ handed' = Append(handed, Handed(0, 0, code, TRUE))
    /\ UNCHANGED <<allocator, mmapBlocks, closed>>
    /\ UNCHANGED <<funcs, nativeBackend, pc, i, candidates, k, fnAsm, asm, unit, err,
                   execMem, log, orig, run, runtime, ctx, execVars>>

\* compile.MMapAllocator.AllocateExec: a region is mapped for every call
compile_AllocateExec ==
    /\ allocator.pkg = "compile"
    /\ closed.err = "none"
    /\ Len(handed) < MaxAllocs
    /\ \E n \in AsmLens("compile") :
         LET code == AsmOf(n, Len(handed) + 1)
         IN /\ mmapBlocks' = Append(mmapBlocks, newBlock("compile", code))
            /\ allocator' = [allocator EXCEPT !.last = Len(mmapBlocks) + 1,
                                              !.blocks = Append(@, Len(mmapBlocks) + 1)]
            /\ handed' = Append(handed, Handed(Len(mmapBlocks) + 1, 0, code, FALSE))
    /\ UNCHANGED closed
    /\ UNCHANGED <<funcs, nativeBackend, pc, i, candidates, k, fnAsm, asm, unit, err,
                   execMem, log, orig, run, runtime, ctx, execVars>>

\* compile.MMapAllocator.AllocateExec, MapRegion returned an error
compile_AllocateExecError ==
    /\ allocator.pkg = "compile"
    /\ closed.err = "none"
    /\ Len(handed) < MaxAllocs
    /\ \E n \in AsmLens("compile") :
         handed' = Append(handed, Handed(0, 0, AsmOf(n, Len(handed) + 1), TRUE))
    /\ UNCHANGED <<allocator, mmapBlocks, closed>>
    /\ UNCHANGED <<funcs, nativeBackend, pc, i, candidates, k, fnAsm, asm, unit, err,
                   execMem, log, orig, run, runtime, ctx, execVars>>

\* the first n entries of blocks
FirstBlocks(blocks, n) == SubSeq(blocks, 1, n)

\* compile.MMapAllocator.Close, called once when the VM is torn down; failing
\* holds the positions in a.blocks whose Unmap would return an error
compile_Close ==
    /\ allocator.pkg = "compile"
    /\ closed.err = "none"
    /\ \E failing \in SUBSET (1..Len(allocator.blocks)) :
         LET stop == IF failing = {} THEN 0
                     ELSE CHOOSE b \in failing : \A c \in failing : b <= c
             calls == IF stop = 0 THEN allocator.blocks
                      ELSE FirstBlocks(allocator.blocks, stop)
             unmapped == {calls[c] : c \in {d \in 1..Len(calls) : d # stop}}
         IN /\ closed' = [err |-> IF stop = 0 THEN "nil" ELSE "error", unmaps |-> calls]
            /\ mmapBlocks' = [b \in 1..Len(mmapBlocks) |->
                                IF b \in unmapped
                                THEN [mmapBlocks[b] EXCEPT !.mem.mapped = FALSE]
                                ELSE mmapBlocks[b]]
    /\ UNCHANGED <<allocator, handed>>
    /\ UNCHANGED <<funcs, nativeBackend, pc, i, candidates, k, fnAsm, asm, unit, err,
                   execMem, log, orig, run, runtime, ctx, execVars>>

\* a VM without functions, and an allocator of either package, newly made
InitAlloc ==
    /\ NoVM
    /\ MachineUnused
    /\ \E pkg \in {"native", "compile"} :
          allocator = [pkg |-> pkg, last |-> 0, blocks |-> <<>>]
    /\ mmapBlocks = <<>>
    /\ handed = <<>>
    /\ closed = [err |-> "none", unmaps |-> <<>>]

NextAlloc ==
    \/ native_AllocateExecLast
    \/ native_AllocateExecNew
    \/ native_AllocateExecError
    \/ compile_AllocateExec
    \/ compile_AllocateExecError
    \/ compile_Close

SpecAlloc == InitAlloc /\ [][NextAlloc]_vars

----------------------------------------------------------------------------
(* Properties of the scanner, stated on the candidates the driver holds    *)
(* once the scan of vm.funcs[i] has returned.                              *)

Scanned == pc = "cand"

ScannedMeta == funcs[i + 1].codeMeta

InstructionAt(j) == ScannedMeta.Instructions[j + 1]

\* C1: the candidates returned by ScanFunc are ordered by Beginning and do not
\* overlap: each candidate ends at or before the Beginning of the next one.
C1_CandidatesOrderedDisjoint ==
    Scanned =>
        \A c \in 1..(Len(candidates) - 1) :
            /\ candidates[c].Beginning <= candidates[c + 1].Beginning
            /\ candidates[c].End <= candidates[c + 1].Beginning

\* two candidates that a branch target split out of one run of supported
\* instructions
C1_Witness ==
    /\ Scanned
    /\ \E c \in 1..(Len(candidates) - 1) :
          \A j \in candidates[c].StartInstruction..candidates[c + 1].EndInstruction :
              InstructionAt(j).Op \in supportedOpcodes

C3_NoTargetInsideCandidate ==
    Scanned =>
        \A c \in 1..Len(candidates) :
            \A j \in (candidates[c].StartInstruction + 1)..candidates[c].EndInstruction :
                InstructionAt(j).Start \notin ScannedMeta.InboundTargets

\* a candidate next to a supported instruction that is an inbound target
C3_Witness ==
    /\ Scanned
    /\ \E c \in 1..Len(candidates) :
          \E j \in 1..(Len(ScannedMeta.Instructions) - 1) :
              /\ InstructionAt(j).Start \in ScannedMeta.InboundTargets
              /\ InstructionAt(j).Op \in supportedOpcodes
              /\ \/ j = candidates[c].EndInstruction + 1
                 \/ j + 1 = candidates[c].StartInstruction

\* C4: every instruction of a candidate has a supported opcode, so supported
\* instructions on the two sides of an unsupported one are in different
\* candidates.
C4_OnlySupportedOpcodes ==
    Scanned =>
        \A c \in 1..Len(candidates) :
            \A j \in candidates[c].StartInstruction..candidates[c].EndInstruction :
                InstructionAt(j).Op \in supportedOpcodes

\* two candidates with a single unsupported instruction between them
C4_Witness ==
    /\ Scanned
    /\ \E c \in 1..(Len(candidates) - 1) :
          /\ candidates[c].EndInstruction + 2 = candidates[c + 1].StartInstruction
          /\ InstructionAt(candidates[c].EndInstruction + 1).Op \notin supportedOpcodes

----------------------------------------------------------------------------
(* Properties of the driver.                                               *)

Dense(c) == c.Metrics.IntegerOps + c.Metrics.FloatOps >= 2

LongEnough(c) == c.End - c.Beginning >= 5

CodeOf(fs) == [f \in 1..Len(fs) |-> IF fs[f].kind = "compiled" THEN fs[f].code ELSE <<>>]

HasEvent(ev, fn, cand, ok) ==
    \E p \in 1..Len(log) : log[p] = Event(ev, fn, cand, ok)

\* some candidate of function number fn (0-based) has been patched
PatchedIn(fn) ==
    \E p \in 1..Len(log) : log[p].ev = "Patch" /\ log[p].fn = fn

\* C5: a candidate with fewer than 2 arithmetic operations or fewer than 5
\* bytes is skipped: no Build call, no allocation, no block and no bytecode
\* change, and the loop goes on with the next candidate; bytecode changes only
\* for a candidate that passes both tests.
C5_FilteredCandidateSkipped ==
    [][ /\ (pc = "cand" /\ k < Len(candidates)
              /\ ~(Dense(candidates[k + 1]) /\ LongEnough(candidates[k + 1])))
           => /\ funcs' = funcs
              /\ fnAsm' = fnAsm
              /\ execMem' = execMem
              /\ log' = log
              /\ err' = err
              /\ pc' = "cand"
              /\ candidates' = candidates
              /\ k' = k + 1
        /\ CodeOf(funcs') # CodeOf(funcs)
           => /\ k < Len(candidates)
              /\ Dense(candidates[k + 1])
              /\ LongEnough(candidates[k + 1]) ]_vars

\* a candidate of the function was skipped and a later one has been patched
C5_Witness ==
    /\ pc = "cand"
    /\ \E c \in 1..k :
          /\ ~(Dense(candidates[c]) /\ LongEnough(candidates[c]))
          /\ \E d \in c..(k - 1) : HasEvent("Patch", i, d, TRUE)

\* the candidates of function f (1-based) that were patched, in patch order
PatchedCandidates(f) ==
    LET IsPatch(e) == e.ev = "Patch" /\ e.fn = f - 1
        cs == ScanFunc(supportedOpcodes, orig[f].codeMeta)
        ps == SelectSeq(log, IsPatch)
    IN [n \in 1..Len(ps) |-> cs[ps[n].cand + 1]]

Succeeded == pc = "done" /\ err = "nil" /\ nativeBackend

\* C6: after a successful tryNativeCompile the blocks of a function are those of
\* its patched candidates in scan order, and the bytecode at the Beginning of
\* the n-th of them holds NativeExec followed by n as a little-endian uint32.
C6_PrologueExact ==
    Succeeded =>
        \A f \in 1..Len(funcs) :
            funcs[f].kind = "compiled" =>
                LET ps == PatchedCandidates(f)
                IN /\ Len(funcs[f].asm) = Len(ps)
                   /\ \A n \in 1..Len(ps) :
                        /\ funcs[f].code[ps[n].Beginning + 1] = WagonNativeExec
                        /\ LittleEndianUint(Slice(funcs[f].code, ps[n].Beginning + 1,
                                                  ps[n].Beginning + 5)) = n - 1
                        /\ n > 1 => ps[n - 1].Beginning < ps[n].Beginning

\* a function with two blocks after a successful run
C6_Witness ==
    /\ Succeeded
    /\ \E f \in 1..Len(funcs) : funcs[f].kind = "compiled" /\ Len(funcs[f].asm) >= 2

\* C7: every byte of a rewritten region after the 5-byte prologue, the last
\* byte End-1 included, is Unreachable.
C7_UnreachableFill ==
    Succeeded =>
        \A f \in 1..Len(funcs) :
            funcs[f].kind = "compiled" =>
                LET ps == PatchedCandidates(f)
                IN \A n \in 1..Len(ps) :
                     \A b \in (ps[n].Beginning + 5)..(ps[n].End - 1) :
                         funcs[f].code[b + 1] = Unreachable

\* C8: a second run of tryNativeCompile on the VM changes no bytecode byte,
\* appends no block and allocates no executable memory.
C8_SecondRunChangesNothing ==
    [][run > 1 => funcs' = funcs /\ fnAsm' = fnAsm /\ execMem' = execMem]_vars

\* C9: the bytecode of a candidate is patched only after Build returned its
\* code, AllocateExec copied that code into executable memory and the block
\* was appended, in this order; a function's bytecode differs from the loaded
\* one only if a patch was made.
C9_PatchAfterBuildAllocAppend ==
    /\ \A p \in 1..Len(log) :
          log[p].ev = "Patch" =>
            \E b \in 1..(p - 1) : \E a \in (b + 1)..(p - 1) : \E d \in (a + 1)..(p - 1) :
                /\ log[b] = Event("Build", log[p].fn, log[p].cand, TRUE)
                /\ log[a] = Event("Alloc", log[p].fn, log[p].cand, TRUE)
                /\ log[d] = Event("Append", log[p].fn, log[p].cand, TRUE)
    /\ pc = "patch" =>
          /\ unit \in 1..Len(execMem)
          /\ execMem[unit] = asm
          /\ asm = Build(candidates[k + 1], funcs[i + 1].code, funcs[i + 1].codeMeta).out
          /\ asm # <<>>
          /\ fnAsm # <<>>
          /\ fnAsm[Len(fnAsm)].nativeUnit = unit
          /\ funcs[i + 1].code[candidates[k + 1].Beginning + 1] # WagonNativeExec
    /\ \A f \in 1..Len(funcs) :
          CodeOf(funcs)[f] # CodeOf(orig)[f] => PatchedIn(f - 1)

\* a candidate has just been patched
C9_Witness ==
    /\ pc = "cand"
    /\ log # <<>>
    /\ log[Len(log)].ev = "Patch"
    /\ funcs[i + 1].code[candidates[k].Beginning + 1] = WagonNativeExec

\* the bytes of function f that lie in candidates number from.. of cs are as loaded
UntouchedFrom(f, cs, from) ==
    \A c \in (from + 1)..Len(cs) :
        \A b \in cs[c].Beginning..(cs[c].End - 1) :
            funcs[f].code[b + 1] = orig[f].code[b + 1]

\* C10: an error of ScanFunc, Build or AllocateExec makes tryNativeCompile return
\* an error at once: the failed call is the last call made, the failing
\* candidate and the later candidates of the function are not patched, and
\* the later functions are as loaded.
C10_ErrorAborts ==
    /\ \A p \in 1..Len(log) : ~log[p].ok => (p = Len(log) /\ pc = "done" /\ err = "error")
    /\ err = "error" =>
          /\ log # <<>>
          /\ ~log[Len(log)].ok
          /\ log[Len(log)].fn = i
          /\ \A f \in (i + 2)..Len(funcs) : funcs[f] = orig[f]
          /\ funcs[i + 1].asm = orig[i + 1].asm
          /\ IF log[Len(log)].ev = "Scan"
             THEN funcs[i + 1] = orig[i + 1]
             ELSE /\ log[Len(log)].cand = k
                  /\ UntouchedFrom(i + 1, candidates, k)
    /\ Len(execMem) = Cardinality({p \in 1..Len(log) : log[p].ev = "Alloc" /\ log[p].ok})

\* AllocateExec failed for a candidate, after an earlier function was compiled
\* or with a later function still to compile
C10_Witness ==
    /\ err = "error"
    /\ log[Len(log)].ev = "Alloc"
    /\ \/ (Len(funcs) > i + 1 /\ funcs[i + 2].kind = "compiled")
       \/ PatchedIn(i - 1)

----------------------------------------------------------------------------
(* Properties of the backend selection.                                    *)

\* a function in which the scanner finds a candidate that passes both tests
Compilable(fn) ==
    /\ fn.kind = "compiled"
    /\ \E c \in 1..Len(ScanFunc(supportedOpcodes, fn.codeMeta)) :
          passesFilters(ScanFunc(supportedOpcodes, fn.codeMeta)[c])

\* C11: a backend is reported only when a registered variant has both the Arch
\* and the OS of the host; without a backend tryNativeCompile returns nil, calls
\* no scanner, builder or allocator, and leaves every function as it was.
C11_NoBackendNoOp ==
    /\ nativeBackend =>
          \E c \in 1..Len(supportedNativeArchs) :
              /\ supportedNativeArchs[c].Arch = runtime.GOARCH
              /\ supportedNativeArchs[c].OS = runtime.GOOS
    /\ ~nativeBackend =>
          /\ log = <<>>
          /\ execMem = <<>>
          /\ funcs = orig
          /\ err \in {"running", "nil"}
          /\ pc \in {"start", "done"}

\* the call has returned on a host whose architecture is registered but whose
\* operating system is not, for a VM with a function that would be compiled
C11_Witness ==
    /\ ~nativeBackend
    /\ runtime.GOARCH = "amd64"
    /\ pc = "done"
    /\ err = "nil"
    /\ \E f \in 1..Len(funcs) : Compilable(funcs[f])

----------------------------------------------------------------------------
(* Properties of the trampoline.                                           *)

----------------------------------------------------------------------------
(* Properties of the allocators.                                           *)

\* the stride of the allocator in use
Stride == allocationAlignmentOf(allocator.pkg) + 1

\* n rounded up to a multiple of the stride
RoundUp(n) == ((n + Stride - 1) \div Stride) * Stride

\* the bytes of buf at off..off+n-1 are those of code: a byte is zero where
\* nothing is recorded for it, so the bytes recorded on either side are compared
ReadsBack(buf, off, code) ==
    /\ \A d \in DOMAIN code.bytes : ByteAt(buf, off + d) = code.bytes[d]
    /\ \A o \in DOMAIN buf.bytes :
          (o >= off /\ o < off + code.len) => buf.bytes[o] = ByteAt(code, o - off)

\* call number c of AllocateExec succeeded and was served from the page that
\* was the last page before it
ServedFromLast(c) ==
    /\ ~handed[c].err
    /\ \E b \in 1..(c - 1) : ~handed[b].err /\ handed[b].block = handed[c].block

\* C13: a successful AllocateExec served from the existing last page copies the
\* code at the old consumed offset, adds the length rounded up to the stride
\* to consumed and takes the same amount from remaining.
C13_ExistingPageAccounting ==
    [][native_AllocateExecLast =>
         LET old == mmapBlocks[allocator.last]
             new == mmapBlocks'[allocator.last]
             h == handed'[Len(handed')]
         IN /\ allocator' = allocator
            /\ Len(mmapBlocks') = Len(mmapBlocks)
            /\ ~h.err
            /\ h.block = allocator.last
            /\ h.off = old.consumed
            /\ ReadsBack(new.mem, old.consumed, h.asm)
            /\ new.consumed = old.consumed + RoundUp(h.asm.len)
            /\ new.remaining = old.remaining - RoundUp(h.asm.len)
            /\ new.remaining >= 0]_vars

\* the second and the third call were served from the page of the first, and
\* the third code has more than one byte
C13_Witness ==
    /\ Len(handed) >= 3
    /\ ServedFromLast(2)
    /\ ServedFromLast(3)
    /\ handed[3].block = handed[1].block
    /\ handed[3].asm.len > 1
    /\ handed[2].asm.len > 1

\* AllocateExec of either package maps a region
MapsRegion == native_AllocateExecNew \/ compile_AllocateExec

BlockSize == minAllocSizeOf(allocator.pkg)

Larger(m, n) == IF m > n THEN m ELSE n

\* C14 as stated: the region mapped when the last page cannot be used has the
\* size max(blockSize, roundUp(len(code), stride)); consumed is the rounded
\* length and remaining the rest of the region.
C14_RegionIsMax ==
    [][MapsRegion =>
         LET new == mmapBlocks'[allocator'.last]
             code == handed'[Len(handed')].asm
         IN /\ new.mem.len = Larger(BlockSize, RoundUp(code.len))
            /\ new.consumed = RoundUp(code.len)
            /\ new.remaining = new.mem.len - new.consumed]_vars

\* C14, amended: the region has the size blockSize when the rounded length is
\* at most blockSize, and blockSize plus the rounded length when it is larger;
\* it is a new block that becomes the last page, its consumed is the rounded
\* length and its remaining the rest of the region.
C14_RegionIsBlockPlusLarge ==
    [][MapsRegion =>
         LET new == mmapBlocks'[allocator'.last]
             code == handed'[Len(handed')].asm
         IN /\ allocator'.last = Len(mmapBlocks) + 1
            /\ Len(mmapBlocks') = Len(mmapBlocks) + 1
            /\ new.mem.mapped
            /\ new.mem.len = IF RoundUp(code.len) > BlockSize
                              THEN BlockSize + RoundUp(code.len)
                              ELSE BlockSize
            /\ new.consumed = RoundUp(code.len)
            /\ new.remaining = new.mem.len - new.consumed]_vars

\* the last page could not take the code of a call, and the region mapped for
\* it is larger than a block
C14_Witness ==
    /\ Len(mmapBlocks) >= 2
    /\ allocator.last = Len(mmapBlocks)
    /\ mmapBlocks[allocator.last].mem.len > BlockSize
    /\ mmapBlocks[allocator.last - 1].remaining > 0

\* a call of AllocateExec returned without an error
Allocates == handed' # handed /\ ~handed'[Len(handed')].err

\* C15: an allocation whose rounded size exceeds minAllocSize goes to the start
\* of a newly mapped page, which becomes the last page, with consumed equal to
\* the rounded size and remaining equal to minAllocSize.
C15_LargeAllocationOnNewPage ==
    [][(Allocates /\ RoundUp(handed'[Len(handed')].asm.len) > BlockSize) =>
         LET h == handed'[Len(handed')]
             new == mmapBlocks'[allocator'.last]
         IN /\ allocator'.last # allocator.last
            /\ allocator'.last \notin 1..Len(mmapBlocks)
            /\ h.block = allocator'.last
            /\ h.off = 0
            /\ ReadsBack(new.mem, 0, h.asm)
            /\ new.consumed = RoundUp(h.asm.len)
            /\ new.remaining = BlockSize]_vars

\* the last call asked for more than a block while the page of the call
\* before it had room left
C15_Witness ==
    /\ Len(handed) >= 2
    /\ ~handed[Len(handed)].err
    /\ ~handed[Len(handed) - 1].err
    /\ handed[Len(handed)].asm.len > BlockSize
    /\ handed[Len(handed)].block # handed[Len(handed) - 1].block
    /\ mmapBlocks[handed[Len(handed) - 1].block].remaining > 0
    /\ allocator.pkg = "native"

\* the calls of AllocateExec that returned a pointer
Successful == {c \in 1..Len(handed) : ~handed[c].err}

\* C16: after any sequence of successful AllocateExec calls, rollovers to a new
\* page included, the byte ranges handed out lie inside their regions and are
\* pairwise disjoint, and every code reads back as it was written.
C16_AllocationsDisjointAndIntact ==
    closed.err = "none" =>
        /\ \A c \in Successful :
              /\ handed[c].block \in 1..Len(mmapBlocks)
              /\ mmapBlocks[handed[c].block].mem.mapped
              /\ handed[c].off + handed[c].asm.len <= mmapBlocks[handed[c].block].mem.len
              /\ ReadsBack(mmapBlocks[handed[c].block].mem, handed[c].off, handed[c].asm)
        /\ \A c \in Successful : \A d \in Successful :
              (c < d /\ handed[c].block = handed[d].block) =>
                  handed[c].off + handed[c].asm.len <= handed[d].off

\* two codes share a page and the third, which the page could not take, went
\* to a new one
C16_Witness ==
    /\ Successful = {1, 2, 3}
    /\ handed[1].asm.len > 1
    /\ handed[2].asm.len > 1
    /\ handed[3].asm.len > 1
    /\ handed[1].block = handed[2].block
    /\ handed[3].block # handed[2].block
    /\ handed[3].asm.len < BlockSize

\* C17: Close attempts to unmap every page the allocator has mapped; when the
\* unmap of a page fails, the failure is reported and the unmap of every
\* remaining page is still attempted.
C17_CloseAttemptsEveryPage ==
    closed.err # "none" =>
        /\ closed.unmaps = allocator.blocks
        /\ closed.err = "nil" =>
              \A b \in 1..Len(allocator.blocks) :
                  ~mmapBlocks[allocator.blocks[b]].mem.mapped

----------------------------------------------------------------------------
(* Properties of Build.                                                    *)

Built == pc = "built"

\* the opcodes of the instructions of the candidate given to Build, in order
BuiltOps ==
    [j \in 1..(candidates[1].EndInstruction - candidates[1].StartInstruction + 1) |->
        funcs[1].codeMeta.Instructions[candidates[1].StartInstruction + j].Op]

\* the primitive of the emitter that implements an opcode
PrimitiveFor(op) ==
    IF op = I64Const THEN "pushI64"
    ELSE IF op = GetLocal THEN "localsLoadPush"
    ELSE "binaryI64"

\* C18: Build returns either the preamble, the primitive of every instruction
\* StartInstruction..EndInstruction in order and the postamble, or an error
\* and no code; it returns an error when an opcode of the candidate is outside
\* {I64Const, GetLocal, I64Add, I64Sub, I64Mul, I64Or, I64And}.
C18_BuildAllOrError ==
    Built =>
        /\ err \in {"nil", "error"}
        /\ err = "error" => asm = <<>>
        /\ (\E j \in 1..Len(BuiltOps) :
                BuiltOps[j] \notin {I64Const, GetLocal, I64Add, I64Sub, I64Mul, I64Or, I64And})
              => err = "error"
        /\ err = "nil" =>
              /\ Len(asm) = Len(BuiltOps) + 2
              /\ asm[1].prim = "preamble"
              /\ asm[Len(asm)].prim = "postamble"
              /\ \A j \in 1..Len(BuiltOps) :
                    /\ asm[j + 1].prim = PrimitiveFor(BuiltOps[j])
                    /\ BuiltOps[j] \in {I64Add, I64Sub, I64Mul, I64Or, I64And}
                          => asm[j + 1].arg = BuiltOps[j]
                    /\ BuiltOps[j] = I64Const => asm[j + 1].arg = <<12, 0, 0, 0, 0, 0, 0, 0>>
                    /\ BuiltOps[j] = GetLocal => asm[j + 1].arg = <<1, 0, 0, 0, 0, 0, 0, 0>>

\* Build returned an error for a candidate whose last instruction it cannot
\* compile, after instructions it can
C18_Witness ==
    /\ Built
    /\ err = "error"
    /\ Len(BuiltOps) = 3
    /\ BuiltOps[1] = I64Const
    /\ BuiltOps[2] = I64Mul
    /\ BuiltOps[3] = SetGlobal

----------------------------------------------------------------------------
(* Properties of the emitted code.                                         *)

\* the three words of the slice header at hdr in memory mem
HeaderOf(mem, hdr) == <<mem[hdr], mem[WordAfter(hdr, 1)], mem[WordAfter(hdr, 2)]>>

\* the number a word holds, for a word below 2^24
ValueOf(w) == w[1] + 256 * w[2] + 65536 * w[3]

EntryLen == ValueOf(machine.entry[WordAfter(StackHeader, 1)])

\* the pushes and the pops a primitive makes
PushesOf(p) ==
    IF p.prim \in {"pushI64", "localsLoadPush", "stackPush", "binaryI64"} THEN 1 ELSE 0

PopsOf(p) ==
    IF p.prim = "stackLoad" THEN 1 ELSE IF p.prim = "binaryI64" THEN 2 ELSE 0

RECURSIVE Pushes(_)
Pushes(n) == IF n = 0 THEN 0 ELSE Pushes(n - 1) + PushesOf(emitted[n])

RECURSIVE Pops(_)
Pops(n) == IF n = 0 THEN 0 ELSE Pops(n - 1) + PopsOf(emitted[n])

\* the length of the stack after the first n primitives
DepthAfter(n) == EntryLen + Pushes(n) - Pops(n)

Returned == machine.at = "returned"

\* C19: when a block of push and pop primitives returns, the length word of
\* the stack descriptor is the length at entry plus the pushes minus the pops,
\* its data pointer and capacity and the three words of the locals descriptor
\* are as at entry, and as many pops as pushes leave the stack descriptor as
\* it was. A block runs into undefined behaviour only by a pop from an empty
\* stack or a push beyond the capacity.
C19_DescriptorOnReturn ==
    /\ Returned =>
          /\ machine.mem[WordAfter(StackHeader, 1)] = Word(DepthAfter(Len(emitted)))
          /\ machine.mem[StackHeader] = machine.entry[StackHeader]
          /\ machine.mem[WordAfter(StackHeader, 2)] = machine.entry[WordAfter(StackHeader, 2)]
          /\ HeaderOf(machine.mem, LocalsHeader) = HeaderOf(machine.entry, LocalsHeader)
          /\ Pushes(Len(emitted)) = Pops(Len(emitted)) =>
                HeaderOf(machine.mem, StackHeader) = HeaderOf(machine.entry, StackHeader)
    /\ machine.at = "undefined" =>
          \/ DepthAfter(Len(emitted) - 1) < PopsOf(emitted[Len(emitted)])
          \/ DepthAfter(Len(emitted)) > StackCap
    /\ machine.at = "running" =>
          \A n \in 0..Len(emitted) : DepthAfter(n) \in 0..StackCap

\* a block that pushed a constant and then popped it and the top of the stack
\* it was entered with has returned
C19_Witness ==
    /\ Returned
    /\ EntryLen = 2
    /\ Len(emitted) = 5
    /\ emitted[2].prim = "pushI64"
    /\ emitted[3].prim = "stackLoad"
    /\ emitted[4].prim = "stackLoad"
    /\ regs.R13

\* the length of the stack as the running block sees it: R13 once it is
\* loaded, the length word of the descriptor before
LengthIn(rg, m) ==
    IF rg.R13 THEN ValueOf(m.reg["R13"]) ELSE ValueOf(m.mem[WordAfter(StackHeader, 1)])

\* element j of the stack
ElementIn(m, j) == m.mem[WordAfter(StackData, j)]

Small(w) == \A j \in 3..8 : w[j] = 0

\* a op b modulo 2^64
Apply(op, a, b) ==
    IF op = I64Add THEN addBytes(a, b, 0)
    ELSE IF op = I64Sub THEN addBytes(a, notBytes(b), 1)
    ELSE IF op = I64And THEN [j \in 1..8 |-> andByte(a[j], b[j])]
    ELSE IF op = I64Or THEN [j \in 1..8 |-> a[j] + b[j] - andByte(a[j], b[j])]
    ELSE SubSeq(mulBytes(a, b, 1, 0), 1, 8)

\* the result r agrees with the arithmetic of the integers where that applies
AgreesWithIntegers(op, a, b, r) ==
    /\ (op = I64Add /\ Small(a) /\ Small(b)) => r = Word(ValueOf(a) + ValueOf(b))
    /\ (op = I64Mul /\ Small(a) /\ Small(b)) =>
          r = BytesOf((ValueOf(a) * ValueOf(b)) % 65536, 2)
              \o BytesOf((ValueOf(a) * ValueOf(b)) \div 65536, 6)
    /\ (op = I64Sub /\ Small(a) /\ Small(b) /\ ValueOf(a) >= ValueOf(b)) =>
          r = Word(ValueOf(a) - ValueOf(b))
    /\ op = I64Sub => addBytes(r, b, 0) = a
    /\ op = I64Add => addBytes(r, notBytes(b), 1) = a

\* C20: a binary operator (the step of ExecBinaryI64, which appends its
\* primitive to emitted) run on a stack whose two top elements are a, below,
\* and b, on top, leaves a op b modulo 2^64 in the place of a, one element
\* less on the stack and the elements below as they were; the block of
\* I64Const 12, I64Const 3, I64Add entered with an empty stack returns with
\* length 1 and stack[0] = 15.
C20_BinaryOperator ==
    /\ [][(/\ Len(emitted') = Len(emitted) + 1
            /\ emitted'[Len(emitted')].prim = "binaryI64"
            /\ machine'.at = "running") =>
            LET op == emitted'[Len(emitted')].arg
                len == LengthIn(regs, machine)
                a == ElementIn(machine, len - 2)
                b == ElementIn(machine, len - 1)
            IN /\ len >= 2
               /\ LengthIn(regs', machine') = len - 1
               /\ ElementIn(machine', len - 2) = Apply(op, a, b)
               /\ AgreesWithIntegers(op, a, b, ElementIn(machine', len - 2))
               /\ \A j \in 0..(len - 3) : ElementIn(machine', j) = ElementIn(machine, j)]_vars
    /\ [](/\ Returned
           /\ EntryLen = 0
           /\ emitted = <<[prim |-> "preamble", arg |-> 0],
                          [prim |-> "pushI64", arg |-> Word(12)],
                          [prim |-> "pushI64", arg |-> Word(3)],
                          [prim |-> "binaryI64", arg |-> I64Add],
                          [prim |-> "postamble", arg |-> 0]>>
           => /\ machine.mem[WordAfter(StackHeader, 1)] = Word(1)
              /\ ElementIn(machine, 0) = Word(15))

\* the block was entered with the stack 3, 2^64 - 1, has multiplied the two
\* and has returned with 2^64 - 3 as the only element
C20_Witness ==
    /\ Returned
    /\ EntryLen = 2
    /\ Len(emitted) = 3
    /\ emitted[2] = [prim |-> "binaryI64", arg |-> I64Mul]
    /\ ElementIn(machine, 0) = <<253, 255, 255, 255, 255, 255, 255, 255>>
    /\ machine.mem[WordAfter(StackHeader, 1)] = Word(1)

\* the last step emitted and ran primitive prim and the block is still running
Ran(prim) ==
    /\ Len(emitted') = Len(emitted) + 1
    /\ emitted'[Len(emitted')].prim = prim
    /\ machine'.at = "running"

\* the length word of the stack descriptor
LenWord(m) == ValueOf(m.mem[WordAfter(StackHeader, 1)])

\* a push stores the register at element len and increments len
PushStoresAtLen ==
    Ran("stackPush") =>
        /\ LenWord(machine') = LenWord(machine) + 1
        /\ ElementIn(machine', LenWord(machine)) = machine.reg[emitted'[Len(emitted')].arg]
        /\ \A j \in 0..(StackCap - 1) :
              j # LenWord(machine) => ElementIn(machine', j) = ElementIn(machine, j)

\* a pop decrements len and loads the element at the new len
PopLoadsBelowLen ==
    Ran("stackLoad") =>
        /\ LenWord(machine') = LenWord(machine) - 1
        /\ machine'.reg[emitted'[Len(emitted')].arg] = ElementIn(machine, LenWord(machine'))
        /\ \A j \in 0..(StackCap - 1) : ElementIn(machine', j) = ElementIn(machine, j)

\* two pushes of x then y on an empty stack
TwoPushes ==
    (/\ machine.at = "returned"
     /\ EntryLen = 0
     /\ Len(emitted) = 4
     /\ emitted[2].prim = "pushI64"
     /\ emitted[3].prim = "pushI64")
    => /\ LenWord(machine) = 2
       /\ ElementIn(machine, 0) = emitted[2].arg
       /\ ElementIn(machine, 1) = emitted[3].arg

\* pop, pop, push of the first popped on a stack u, v
PopPopPush ==
    (/\ machine.at = "returned"
     /\ EntryLen = 2
     /\ Len(emitted) = 5
     /\ emitted[2] = [prim |-> "stackLoad", arg |-> "AX"]
     /\ emitted[3] = [prim |-> "stackLoad", arg |-> "BX"]
     /\ emitted[4] = [prim |-> "stackPush", arg |-> "AX"])
    => /\ LenWord(machine) = 1
       /\ ElementIn(machine, 0) = machine.entry[WordAfter(StackData, 1)]

\* C21: a push stores the register at element len and then increments len, a
\* pop decrements len and loads element len; two pushes of x then y on an
\* empty stack give length 2 with stack[0] = x and stack[1] = y, and pop, pop,
\* push of the first popped on a stack u, v gives length 1 with stack[0] = v.
C21_StackIsLIFO ==
    /\ [][PushStoresAtLen /\ PopLoadsBelowLen]_vars
    /\ [](TwoPushes /\ PopPopPush)

\* pop, pop, push of the first popped has run on the stack 3, 2^64 - 1
C21_Witness ==
    /\ machine.at = "returned"
    /\ EntryLen = 2
    /\ Len(emitted) = 5
    /\ emitted[2] = [prim |-> "stackLoad", arg |-> "AX"]
    /\ emitted[3] = [prim |-> "stackLoad", arg |-> "BX"]
    /\ emitted[4] = [prim |-> "stackPush", arg |-> "AX"]
    /\ ElementIn(machine, 0) = AllOnes
    /\ machine.reg["BX"] = Word(3)

\* the words of the locals, at the data pointer of the locals descriptor
LocalsIn(m) == [j \in 0..(Len(Locals) - 1) |-> m.mem[WordAfter(m.mem[LocalsHeader], j)]]

\* the step of a compiled GetLocal pushes the local of its index
GetLocalPushes ==
    Ran("localsLoadPush") =>
        LET index == ValueOf(emitted'[Len(emitted')].arg)
            len == LengthIn(regs, machine)
        IN /\ LengthIn(regs', machine') = len + 1
           /\ ElementIn(machine', len) = LocalsIn(machine)[index]
           /\ ElementIn(machine', len) = Locals[index + 1]
           /\ \A j \in 0..(len - 1) : ElementIn(machine', j) = ElementIn(machine, j)
           /\ LocalsIn(machine') = LocalsIn(machine)
           /\ HeaderOf(machine'.mem, LocalsHeader) = HeaderOf(machine.mem, LocalsHeader)

\* GetLocal 0; GetLocal 1; I64Add on an empty stack with the locals 1335, 2
GetLocalsAdded ==
    (/\ Returned
     /\ EntryLen = 0
     /\ emitted = <<[prim |-> "preamble", arg |-> 0],
                    [prim |-> "localsLoadPush", arg |-> Word(0)],
                    [prim |-> "localsLoadPush", arg |-> Word(1)],
                    [prim |-> "binaryI64", arg |-> I64Add],
                    [prim |-> "postamble", arg |-> 0]>>)
    => /\ LenWord(machine) = 1
       /\ ElementIn(machine, 0) = Word(1337)
       /\ LocalsIn(machine) = LocalsIn([mem |-> machine.entry])

\* C22: the block of a GetLocal i pushes locals[i], read at the locals data
\* pointer + i*8, and leaves the locals unchanged; with the locals 1335, 2 the
\* block of GetLocal 0; GetLocal 1; I64Add on an empty stack returns with
\* length 1 and stack[0] = 1337.
C22_GetLocalPushesLocal ==
    /\ [][GetLocalPushes]_vars
    /\ []GetLocalsAdded

\* the block of GetLocal 0; GetLocal 1; I64Add has returned
C22_Witness ==
    /\ Returned
    /\ EntryLen = 0
    /\ Len(emitted) = 5
    /\ emitted[2] = [prim |-> "localsLoadPush", arg |-> Word(0)]
    /\ emitted[3] = [prim |-> "localsLoadPush", arg |-> Word(1)]
    /\ emitted[4] = [prim |-> "binaryI64", arg |-> I64Add]
    /\ ElementIn(machine, 0) = Word(1337)

\* instruction j of the scanned function is supported
SupportedAt(j) == InstructionAt(j).Op \in supportedOpcodes

\* instruction j of the scanned function is an inbound target after the start
TargetAt(j) == j > 0 /\ InstructionAt(j).Start \in ScannedMeta.InboundTargets

\* the instructions of the candidates, as pairs of first and last
Runs(cands) ==
    [c \in 1..Len(cands) |-> <<cands[c].StartInstruction, cands[c].EndInstruction>>]

\* ten supported instructions with an inbound target at Instructions[5].Start
TenSupported ==
    LET opseq == [j \in 1..10 |-> IF j % 2 = 1 THEN I64Const ELSE I64Add]
    IN compiledFunction(opseq, TargetsOf(opseq, {6}))

\* C23 as stated: a supported instruction at an inbound target after the
\* start is the first instruction of the next run, and ten supported
\* instructions with a target at instruction 5 give the candidates 0..4 and
\* 5..9.
C23_TargetStartsNextRun ==
    /\ Scanned =>
          \A j \in 1..(Len(ScannedMeta.Instructions) - 3) :
              (/\ SupportedAt(j) /\ TargetAt(j)
               /\ SupportedAt(j + 1) /\ ~TargetAt(j + 1)
               /\ SupportedAt(j + 2) /\ ~TargetAt(j + 2))
              => \E c \in 1..Len(candidates) : candidates[c].StartInstruction = j
    /\ Runs(ScanFunc(supportedOpcodes, TenSupported.codeMeta)) = << <<0, 4>>, <<5, 9>> >>

\* C23, amended: a supported instruction at an inbound target after the start
\* closes the running candidate and belongs to no candidate, the next run
\* begins at the instruction after it; a candidate is a run that neither an
\* unsupported instruction nor such a target interrupts and that cannot be
\* extended on either side. Ten supported instructions with a target at
\* instruction 5 give the candidates 0..4 and 6..9.
C23_TargetBelongsToNoRun ==
    /\ Scanned =>
          \A c \in 1..Len(candidates) :
              /\ \A j \in candidates[c].StartInstruction..candidates[c].EndInstruction :
                    SupportedAt(j) /\ ~TargetAt(j)
              /\ \/ candidates[c].StartInstruction = 0
                 \/ ~SupportedAt(candidates[c].StartInstruction - 1)
                 \/ TargetAt(candidates[c].StartInstruction - 1)
              /\ \/ candidates[c].EndInstruction = Len(ScannedMeta.Instructions) - 1
                 \/ ~SupportedAt(candidates[c].EndInstruction + 1)
                 \/ TargetAt(candidates[c].EndInstruction + 1)
    /\ Runs(ScanFunc(supportedOpcodes, TenSupported.codeMeta)) = << <<0, 4>>, <<6, 9>> >>

\* two candidates with nothing but a supported inbound target between them
C23_Witness ==
    /\ Scanned
    /\ \E c \in 1..(Len(candidates) - 1) :
          /\ candidates[c].EndInstruction + 2 = candidates[c + 1].StartInstruction
          /\ SupportedAt(candidates[c].EndInstruction + 1)
          /\ TargetAt(candidates[c].EndInstruction + 1)

\* instruction j extends the running candidate
Extends(j) == SupportedAt(j) /\ ~TargetAt(j)

\* the runs of the scanned function: the first and last instruction of every
\* stretch of extending instructions that is closed on both sides by an
\* unsupported instruction, by a branch target or by an end of the stream
MaximalRuns ==
    LET n == Len(ScannedMeta.Instructions)
    IN {r \in (0..(n - 1)) \X (0..(n - 1)) :
           /\ r[1] <= r[2]
           /\ \A j \in r[1]..r[2] : Extends(j)
           /\ r[1] = 0 \/ ~Extends(r[1] - 1)
           /\ r[2] = n - 1 \/ ~Extends(r[2] + 1)}

\* C24: ScanFunc returns a run of supported instructions exactly when the run
\* has more than 2 instructions, whether an unsupported instruction, a branch
\* target or the end of the stream closes it, and never returns the empty
\* candidate it starts with.
C24_RunsOfThreeOrMore ==
    Scanned =>
        /\ {Runs(candidates)[c] : c \in 1..Len(candidates)}
              = {r \in MaximalRuns : r[2] - r[1] + 1 > 2}
        /\ \A c \in 1..Len(candidates) :
              /\ candidates[c].Metrics.AllOps
                    = candidates[c].EndInstruction - candidates[c].StartInstruction + 1
              /\ candidates[c].Metrics.AllOps >= 3
              /\ candidates[c].End > candidates[c].Beginning
        /\ \A c, d \in 1..Len(candidates) :
              Runs(candidates)[c] = Runs(candidates)[d] => c = d

\* a run of two instructions that was not returned before a run of three that
\* the end of the stream closed and that was returned
C24_Witness ==
    /\ Scanned
    /\ Len(candidates) = 1
    /\ candidates[1].EndInstruction = Len(ScannedMeta.Instructions) - 1
    /\ candidates[1].Metrics.AllOps = 3
    /\ <<0, 1>> \in MaximalRuns

\* a call of AllocateExec of package native has succeeded on an allocator
\* that had a last page
AllocatedWithLastPage ==
    /\ allocator.pkg = "native"
    /\ allocator.last # 0
    /\ Len(handed') = Len(handed) + 1
    /\ ~handed'[Len(handed')].err

\* what remained on the last page before the call, and the length asked for
RemainingBefore == mmapBlocks[allocator.last].remaining

Requested == handed'[Len(handed')].asm.len

MappedNewPage == Len(mmapBlocks') = Len(mmapBlocks) + 1

PlacedOnLastPage ==
    /\ Len(mmapBlocks') = Len(mmapBlocks)
    /\ handed'[Len(handed')].block = allocator.last
    /\ handed'[Len(handed')].off = mmapBlocks[allocator.last].consumed

\* C25 as stated: a new page is mapped only when what remains on the last
\* page is strictly less than the requested length; a code with len <=
\* remaining, the exact fit included, is placed on the last page.
C25_ExactFitOnLastPage ==
    [][AllocatedWithLastPage =>
          /\ MappedNewPage => RemainingBefore < Requested
          /\ Requested <= RemainingBefore => PlacedOnLastPage]_vars

\* C25, amended: a code is placed on the last page exactly when what remains
\* is strictly more than its length; with remaining <= len, the exact fit
\* included, a new page is mapped.
C25_NewPageUnlessStrictlyMore ==
    [][AllocatedWithLastPage =>
          /\ Requested < RemainingBefore => PlacedOnLastPage
          /\ RemainingBefore <= Requested => MappedNewPage
          /\ MappedNewPage \/ PlacedOnLastPage]_vars

\* a code of one stride was asked for when one stride remained on the last
\* page, and a second page was mapped for it
C25_Witness ==
    /\ allocator.pkg = "native"
    /\ Len(mmapBlocks) = 2
    /\ Len(handed) = 3
    /\ ~handed[3].err
    /\ handed[3].block = 2
    /\ handed[3].asm.len = Stride
    /\ mmapBlocks[1].remaining = Stride
    /\ handed[2].block = 1

\* the candidates of the loaded function f that pass both filters
Passing(f) ==
    LET cs == ScanFunc(supportedOpcodes, orig[f].codeMeta)
    IN {cs[c] : c \in {d \in 1..Len(cs) : Dense(cs[d]) /\ LongEnough(cs[d])}}

\* the offsets at which the bytecode of function f differs from the loaded one
ChangedOffsets(f) ==
    {b \in 0..(Len(orig[f].code) - 1) : funcs[f].code[b + 1] # orig[f].code[b + 1]}

\* C26: at every point of tryNativeCompile the bytecode of every function has
\* the length it was loaded with and differs from the loaded one only inside
\* [Beginning, End) of candidates that passed both filters; the five bytes of
\* a prologue lie inside the candidate they were written for; host functions
\* are as loaded.
C26_PatchStaysInsideCandidates ==
    /\ Len(funcs) = Len(orig)
    /\ \A f \in 1..Len(funcs) :
          IF orig[f].kind = "compiled"
          THEN /\ funcs[f].kind = "compiled"
               /\ Len(funcs[f].code) = Len(orig[f].code)
               /\ funcs[f].codeMeta = orig[f].codeMeta
               /\ \A passing \in IF funcs[f].code = orig[f].code
                                       /\ PatchedCandidates(f) = <<>>
                                    THEN {}
                                    ELSE {Passing(f)} :
                  \A patched \in {PatchedCandidates(f)} :
                     /\ \A b \in ChangedOffsets(f) :
                           \E c \in passing : c.Beginning <= b /\ b < c.End
                     /\ \A n \in 1..Len(patched) :
                           /\ patched[n] \in passing
                           /\ patched[n].Beginning + 5 <= patched[n].End
          ELSE funcs[f] = orig[f]

\* a host function and a compiled function with a patched candidate that
\* ends before the end of the bytecode, after a candidate that was filtered out
C26_Witness ==
    /\ pc = "done"
    /\ \E f \in 1..Len(funcs) : funcs[f].kind # "compiled"
    /\ \E f \in 1..Len(funcs) :
          /\ orig[f].kind = "compiled"
          /\ \E n \in 1..Len(PatchedCandidates(f)) :
                PatchedCandidates(f)[n].End < Len(funcs[f].code)
          /\ Len(ScanFunc(supportedOpcodes, orig[f].codeMeta)) > Cardinality(Passing(f))
          /\ ChangedOffsets(f) # {}

\* the integer operations of the supported set
IntegerOpcodes == {I64Const, I64Add, I64Sub, I64And, I64Or, I64Mul}

\* the number of integer operations among the instructions of candidate c
IntegerOpsIn(c) ==
    Cardinality({j \in c.StartInstruction..c.EndInstruction :
                    InstructionAt(j).Op \in IntegerOpcodes})

\* C27: for every candidate the scanner of the AMD64 backend returns, AllOps
\* is the number of its instructions and IntegerOps the number of its
\* instructions that are integer operations of the supported set, so that a
\* candidate with at least two of them passes the density filter of the driver.
C27_MetricsCountIntegerOps ==
    Scanned =>
        \A c \in 1..Len(candidates) :
            /\ candidates[c].Metrics.AllOps
                  = candidates[c].EndInstruction - candidates[c].StartInstruction + 1
            /\ candidates[c].Metrics.IntegerOps = IntegerOpsIn(candidates[c])
            /\ IntegerOpsIn(candidates[c]) >= 2 => Dense(candidates[c])

\* C28: in every state of the allocator of package native the consumed of the
\* last page is a multiple of the stride and consumed + remaining is the
\* mapped size of the page, remaining having never wrapped around; every
\* allocation starts at a multiple of the stride in its page.
C28_PageAccounting ==
    allocator.pkg = "native" =>
        /\ allocator.last # 0 =>
              LET last == mmapBlocks[allocator.last]
              IN /\ last.consumed % Stride = 0
                 /\ last.consumed >= 0
                 /\ last.remaining >= 0
                 /\ last.remaining <= last.mem.len
                 /\ last.consumed + last.remaining = last.mem.len
        /\ \A c \in Successful : handed[c].off % Stride = 0

\* a page filled to its last byte by an allocation on the existing page
C28_Witness ==
    /\ allocator.pkg = "native"
    /\ Len(mmapBlocks) = 1
    /\ Len(handed) = 2
    /\ handed[2].off > 0
    /\ handed[2].asm.len = 4
    /\ mmapBlocks[1].remaining = 0
    /\ mmapBlocks[1].consumed = BlockSize

\* the index that the prologue at offset at of the bytecode code encodes
PrologueIndex(code, at) == LittleEndianUint(Slice(code, at + 1, at + 5))

\* C29: whenever tryNativeCompile has returned, with or without an error,
\* every NativeExec prologue it wrote into the bytecode of a function encodes
\* an index smaller than the length of the asm list stored in vm.funcs for
\* that function.
C29_PrologueIndexInRange ==
    pc = "done" =>
        \A f \in 1..Len(funcs) :
            funcs[f].kind = "compiled" =>
                \A n \in 1..Len(PatchedCandidates(f)) :
                    /\ funcs[f].code[PatchedCandidates(f)[n].Beginning + 1] = WagonNativeExec
                    /\ PrologueIndex(funcs[f].code, PatchedCandidates(f)[n].Beginning)
                          < Len(funcs[f].asm)

----------------------------------------------------------------------------
(* The interpreter on the instructions of a candidate, and the trampoline  *)
(* with the block it calls run on the CPU. The dispatch loop of the        *)
(* interpreter is not part of the sources modelled here: an I64Const       *)
(* pushes its immediate, a GetLocal pushes the local of its index, a       *)
(* binary operator pops b, pops a and pushes a op b, and the program       *)
(* counter moves past the instruction.                                     *)

\* one instruction interpreted on st; ok is lost when the stack lacks an
\* operand or has no room left
interpretInstruction(st, code, inst) ==
    LET imm == Slice(code, inst.Start + 1, inst.Start + inst.Size)
        next == [st EXCEPT !.pc = inst.Start + inst.Size]
    IN IF ~st.ok THEN st
       ELSE IF inst.Op = I64Const
       THEN IF Len(st.stack) < StackCap
            THEN [next EXCEPT !.stack = Append(@, imm)]
            ELSE [st EXCEPT !.ok = FALSE]
       ELSE IF inst.Op = GetLocal
       THEN IF Len(st.stack) < StackCap /\ LittleEndianUint(imm) < Len(st.locals)
            THEN [next EXCEPT !.stack = Append(@, st.locals[LittleEndianUint(imm) + 1])]
            ELSE [st EXCEPT !.ok = FALSE]
       ELSE IF inst.Op \in {I64Add, I64Sub, I64And, I64Or, I64Mul}
       THEN IF Len(st.stack) >= 2
            THEN [next EXCEPT !.stack =
                     Append(SubSeq(@, 1, Len(@) - 2),
                            Apply(inst.Op, @[Len(@) - 1], @[Len(@)]))]
            ELSE [st EXCEPT !.ok = FALSE]
       ELSE [st EXCEPT !.ok = FALSE]

\* the instructions numbered first..last (0-based) interpreted one by one
RECURSIVE interpret(_, _, _, _, _)
interpret(st, code, insts, first, last) ==
    IF first > last THEN st
    ELSE CHOOSE r \in {interpret(n, code, insts, first + 1, last) :
                          n \in {interpretInstruction(st, code, insts[first + 1])}} : TRUE

\* the instructions Build emits for the primitives prims, from builder b on
RECURSIVE emitAll(_, _)
emitAll(b, prims) ==
    IF prims = <<>> THEN b
    ELSE CHOOSE r \in {emitAll(n, Tail(prims)) : n \in {emitPrimitive(b, Head(prims))}} : TRUE

\* the CPU at the entry of a block called with this stack
Enter(stack) ==
    [at |-> "running",
     reg |-> [r \in Registers |-> IF r = "SP" THEN Word(64) ELSE Word(0)],
     mem |-> MemoryOf(stack),
     entry |-> MemoryOf(stack)]

\* the stacks the interpreter may hold when it meets a trampoline
RunStacks == {<<>>, <<Word(3), AllOnes>>, <<Word(3), AllOnes, Word(12), Word(3)>>}

\* nativeCodeInvocation with the call of the block carried out: the code
\* of the unit runs on the stack and the locals of the frame
InvokeNative ==
    /\ pc = "done"
    /\ err = "nil"
    /\ machine.at = "unused"
    /\ \E f \in 1..Len(funcs) :
         /\ funcs[f].kind = "compiled"
         /\ \E asmIndex \in 0..(Len(funcs[f].asm) - 1) : \E stack \in RunStacks :
              LET block == funcs[f].asm[asmIndex + 1]
                  b == emitAll(NewBuilder, execMem[block.nativeUnit])
              IN /\ ctx' = [asm |-> funcs[f].asm,
                            invoked |-> <<[nativeUnit |-> block.nativeUnit,
                                           stack |-> "vm.ctx.stack",
                                           locals |-> "vm.ctx.locals"]>>,
                            pc |-> block.resumePC]
                 /\ machine' = Run(Enter(stack), b.prog)
                 /\ regs' = b.regs
                 /\ emitted' = execMem[block.nativeUnit]
    /\ UNCHANGED <<funcs, nativeBackend, pc, i, candidates, k, fnAsm, asm, unit, err,
                   execMem, log, orig, run, runtime, allocVars>>

\* a VM of one compiled function on a host with a backend
InitRun ==
    /\ \E g \in 1..MaxGroups : \E shape \in [1..g -> 1..Len(Groups)] :
          \E sel \in TargetSelections(g) :
             funcs = <<functionOf(shape, sel)>>
    /\ runtime = [GOARCH |-> "amd64", GOOS |-> "linux"]
    /\ nativeBackend = nativeBackendFor(runtime)
    /\ InitCommon
    /\ ctx = NoContext
    /\ AllocatorUnused
    /\ MachineUnused

\* a compilation without errors, then the interpreter at a trampoline
NextRun ==
    \/ StartStep
    \/ LoopExit
    \/ ScanStep
    \/ StoreFn
    \/ SkipCandidate
    \/ BuildStep
    \/ AllocStep
    \/ AppendStep
    \/ PatchStep
    \/ InvokeNative

SpecRun == InitRun /\ [][NextRun]_vars

\* a block has been called
Invoked == ctx.invoked # <<>> /\ machine.at # "unused"

\* the stack the block was entered with
EntryStack == [j \in 1..EntryLen |-> machine.entry[WordAfter(StackData, j - 1)]]

\* the original instructions of candidate c interpreted from its Beginning
Interpreted(c) ==
    interpret([stack |-> EntryStack, locals |-> Locals, pc |-> c.Beginning, ok |-> TRUE],
              orig[1].code, orig[1].codeMeta.Instructions,
              c.StartInstruction, c.EndInstruction)

\* C30: for every patched candidate and every stack with the operands and
\* the room its instructions need, the trampoline at Beginning calls the
\* block of the candidate, and the block and the resume at resumePC leave the
\* stack contents, the stack length, the locals and the program counter that
\* the interpretation of the original instructions of [Beginning, End) leaves.
C30_NativeRefinesInterpreter ==
    Invoked =>
        \A n \in 1..Len(funcs[1].asm) :
            funcs[1].asm[n].nativeUnit = ctx.invoked[1].nativeUnit =>
                /\ n <= Len(PatchedCandidates(1))
                /\ funcs[1].code[PatchedCandidates(1)[n].Beginning + 1] = WagonNativeExec
                /\ PrologueIndex(funcs[1].code, PatchedCandidates(1)[n].Beginning) = n - 1
                /\ Interpreted(PatchedCandidates(1)[n]).ok =>
                      /\ machine.at = "returned"
                      /\ LenWord(machine) = Len(Interpreted(PatchedCandidates(1)[n]).stack)
                      /\ \A j \in 1..Len(Interpreted(PatchedCandidates(1)[n]).stack) :
                            ElementIn(machine, j - 1)
                              = Interpreted(PatchedCandidates(1)[n]).stack[j]
                      /\ LocalsIn(machine) = [j \in 0..(Len(Locals) - 1) |-> Locals[j + 1]]
                      /\ ctx.pc = Interpreted(PatchedCandidates(1)[n]).pc
                      /\ ctx.pc = PatchedCandidates(1)[n].End

\* a block of two binary operators, two locals and a multiplication has run
\* on a stack of four words and has returned
C30_Witness ==
    /\ Invoked
    /\ machine.at = "returned"
    /\ EntryLen = 4
    /\ Len(emitted) = 8
    /\ emitted[2] = [prim |-> "binaryI64", arg |-> I64Add]
    /\ emitted[3] = [prim |-> "binaryI64", arg |-> I64Sub]
    /\ emitted[7] = [prim |-> "binaryI64", arg |-> I64Mul]
    /\ Interpreted(PatchedCandidates(1)[1]).ok
    /\ LenWord(machine) = 2

====
